---------------------------- MODULE Spec2Model ----------------------------
(***************************************************************************)
(* A model of the GitHub sensor node (BlockScience/koi-net-github-sensor-  *)
(* node): the manifest handler that classifies GitHubEvent knowledge       *)
(* objects, the webhook path (listener, dispatcher, typed handlers), and   *)
(* the backfill sweep with its conditional, paginated API client.          *)
(*                                                                         *)
(* The specifications share the module's variables:                        *)
(*   SpecClassify  the processor queue, its worker and the manifest handler*)
(*   SpecWebhook   github_webhook_listener and process_webhook_event       *)
(*   SpecBackfill  run_initial_backfill, backfill_repository_data, gh_api  *)
(*   SpecSweep     one sweep over several configured names                 *)
(*   SpecRestart   sweeps of a process that can crash and be restarted     *)
(*   SpecPaging    get_repo_list_paged against a well-behaved upstream     *)
(***************************************************************************)
EXTENDS Integers, Sequences, FiniteSets, TLC

\* Python's None where a string is expected (ETag, delivery id, timestamp).
None == "None"

\* Python truthiness of an optional string: None and "" are falsy.
Truthy(s) == s # None /\ s # ""

(***************************************************************************)
(*                               THE STATE                                 *)
(***************************************************************************)

\* ---- part 1: the processor and its cache
VARIABLES
    cache,          \* RID -> cached bundle (its manifest) or NoBundle
    kobj_queue,     \* node.processor's queue of knowledge objects
    forwarded,      \* the knowledge objects passed on downstream, in order
    lastHandled,    \* what the last run of the manifest handler saw and returned
    nSubmitted,     \* calls of node.processor.handle so far
    readFaults      \* cache reads that raised so far

classifyVars ==
    <<cache, kobj_queue, forwarded, lastHandled, nSubmitted, readFaults>>

\* ---- part 2: the webhook endpoint and its tasks
VARIABLES
    tasks,          \* process_webhook_event tasks created and not yet run
    emitted,        \* what the webhook handlers handed to node.processor.handle
    response,       \* status of the listener's last response (0: none yet)
    lastTask,       \* the last task run and how it ended
    nRequests,      \* webhook requests received so far
    received        \* the requests received and how each was answered (kept
                    \* to state the claims)

webhookVars == <<tasks, emitted, response, lastTask, nRequests, received>>

\* ---- part 3: the backfill sweep
VARIABLES
    store,                  \* the durable cursor file: repository -> cursors
    overall_backfill_state, \* the sweep's in-memory copy of the file
    repo_state,             \* the cursors handed to backfill_repository_data
    aliased,                \* repo_state is the dict held in the overall state
    bf_pc,                  \* "idle", "repo", a resource name, "save", "done"
    repo_idx,               \* position in monitored_repositories
    pre_sweep,              \* what the sweep loaded (kept to state the claims)
    incomplete,             \* <<repository, resource>> whose work failed part-way
    bf_log,                 \* what the last resource step fetched and did
    file_torn,              \* the cursor file was opened for writing and never written
    committed,              \* what the last completed save wrote (kept for the claims)
    sweep_trace,            \* load, repository, fetch and save steps of this sweep
    sweep_no,               \* process starts so far
    running                 \* run_initial_backfill tasks created and not finished

backfillVars ==
    <<store, overall_backfill_state, repo_state, aliased, bf_pc, repo_idx,
      pre_sweep, incomplete, bf_log, file_torn, committed, sweep_trace,
      sweep_no, running>>

\* ---- node.config.github, read at construction
VARIABLES
    monitored_repositories, \* the configured names, each as its '/'-segments
    backfill_lookback_days

configVars == <<monitored_repositories, backfill_lookback_days>>

\* ---- part 4: one call of get_repo_list_paged against a list served in pages
VARIABLES
    paging_list,            \* the upstream list
    paging_per_page,        \* params["per_page"]
    paging_etag,            \* the etag argument: None or the ETag stored before
    paging_result           \* what the call returned (NoResult before it)

pagingVars == <<paging_list, paging_per_page, paging_etag, paging_result>>

\* ---- part 5: one call on the GitHubEvent RID type
VARIABLES
    rid_call                \* the last call and what it returned (NoCall before it)

ridVars == <<rid_call>>

\* ---- part 7: coordinator_contact_handler on the KoiNetNode objects it is given
VARIABLES
    graph,                  \* processor.network.graph: the sensor's edge to each node
    contact_log,            \* the knowledge objects the handler was called with
    processor_handled,      \* the bundles given to processor.handle, with the call
    pushed                  \* the push_event_to calls, with the call

contactVars == <<graph, contact_log, processor_handled, pushed>>

vars == <<classifyVars, webhookVars, backfillVars, configVars, pagingVars,
          ridVars, contactVars>>

(***************************************************************************)
(*                     PART 1: THE DEDUP CLASSIFIER                        *)
(***************************************************************************)

\* ---- bounds of part 1
MaxSubmit == 3     \* calls of node.processor.handle in one behaviour

\* Manifest timestamps.
Timestamps == {1, 2}

\* RIDs of GitHubEvent knowledge (reference strings owner/repo:event_id).
GitHubEventRIDs == {"o/r:e1", "o/r:e2"}
\* Event contents, and the content hash Bundle.generate derives from them.
Contents == {"c1", "c2"}
sha256_hash_json(contents) == "sha256(" \o contents \o ")"
Hints == {"NEW", "UPDATE"}

\* An absent manifest / an absent cache entry.
NoManifest == [present |-> FALSE]
NoBundle == [present |-> FALSE]

Manifests ==
    [present : {TRUE}, sha256_hash : {sha256_hash_json(c) : c \in Contents},
     timestamp : Timestamps]

\* The knowledge objects the producers of this node queue: Bundle.generate
\* always attaches a manifest; event_type is the producer's hint. The webhook
\* handlers and the backfill pass queue them the same way (source Internal).
ProducedKobjs ==
    [rid : GitHubEventRIDs, manifest : Manifests, event_type : Hints,
     normalized_event_type : {None}]

\* The handler's answer: stop the chain, or pass the (relabelled) kobj on.
STOP_CHAIN == [stop |-> TRUE]
PassOn(kobj) == [stop |-> FALSE, kobj |-> kobj]

\* A handler that also stops the chain on an older-or-equal timestamp.
github_event_manifest_handler_TimestampGate(kobj, prev_bundle) ==
    IF kobj.rid \notin GitHubEventRIDs
    THEN PassOn(kobj)
    ELSE IF prev_bundle # NoBundle
         THEN IF /\ kobj.manifest # NoManifest
                 /\ \/ kobj.manifest.sha256_hash = prev_bundle.sha256_hash
                    \/ kobj.manifest.timestamp <= prev_bundle.timestamp
              THEN STOP_CHAIN
              ELSE PassOn([kobj EXCEPT !.normalized_event_type = "UPDATE"])
         ELSE PassOn([kobj EXCEPT !.normalized_event_type = "NEW"])

\* A handler that labels by the hash but never stops the chain.
github_event_manifest_handler_NoStop(kobj, prev_bundle) ==
    IF kobj.rid \notin GitHubEventRIDs
    THEN PassOn(kobj)
    ELSE IF prev_bundle # NoBundle
         THEN PassOn([kobj EXCEPT !.normalized_event_type = "UPDATE"])
         ELSE PassOn([kobj EXCEPT !.normalized_event_type = "NEW"])

\* A handler that drops the candidate when it has no prior record to compare.
github_event_manifest_handler_DropUnknown(kobj, prev_bundle) ==
    IF kobj.rid \notin GitHubEventRIDs
    THEN PassOn(kobj)
    ELSE IF prev_bundle # NoBundle
         THEN IF /\ kobj.manifest # NoManifest
                 /\ kobj.manifest.sha256_hash = prev_bundle.sha256_hash
              THEN STOP_CHAIN
              ELSE PassOn([kobj EXCEPT !.normalized_event_type = "UPDATE"])
         ELSE STOP_CHAIN

\* handlers.py github_event_manifest_handler, after the cache read: prev_bundle
\* is what the read returned, NoBundle when the RID is unknown or the read raised.
github_event_manifest_handler(kobj, prev_bundle) ==
    IF kobj.rid \notin GitHubEventRIDs
    THEN PassOn(kobj)
    ELSE IF prev_bundle # NoBundle
         THEN IF /\ kobj.manifest # NoManifest
                 /\ kobj.manifest.sha256_hash = prev_bundle.sha256_hash
              THEN STOP_CHAIN
              ELSE PassOn([kobj EXCEPT !.normalized_event_type = "UPDATE"])
         ELSE PassOn([kobj EXCEPT !.normalized_event_type = "NEW"])

\* The try/except around processor.cache.read in the handler.
cache_read_or_none(rid, raises) == IF raises THEN NoBundle ELSE cache[rid]

NoHandled == [ran |-> FALSE]

InitClassify ==
    /\ cache \in [GitHubEventRIDs -> {NoBundle}]
    /\ kobj_queue = <<>>
    /\ forwarded = <<>>
    /\ lastHandled = NoHandled
    /\ nSubmitted = 0
    /\ readFaults = 0

\* node.processor.handle(bundle=..., event_type=hint), as every producer of the
\* node calls it: the knowledge object is queued for the processor thread.
ProcessorHandle ==
    /\ nSubmitted < MaxSubmit
    /\ \E kobj \in ProducedKobjs :
         kobj_queue' = Append(kobj_queue, kobj)
    /\ nSubmitted' = nSubmitted + 1
    /\ UNCHANGED <<cache, forwarded, lastHandled, readFaults>>
    /\ UNCHANGED <<webhookVars, backfillVars, configVars, pagingVars, ridVars, contactVars>>

\* The processor thread takes the next knowledge object and runs it through
\* the manifest handler; an accepted one is written to the cache and passed on.
KobjWorker ==
    /\ kobj_queue # <<>>
    /\ \E raises \in BOOLEAN :
         LET kobj == Head(kobj_queue)
             prev == cache_read_or_none(kobj.rid, raises)
             res  == github_event_manifest_handler(kobj, prev)
         IN  /\ kobj_queue' = Tail(kobj_queue)
             /\ readFaults' = IF raises THEN readFaults + 1 ELSE readFaults
             /\ lastHandled' =
                    [ran |-> TRUE, kobj |-> kobj, cached |-> cache[kobj.rid],
                     raised |-> raises, prev_bundle |-> prev, result |-> res,
                     fwd_before |-> Len(forwarded)]
             /\ IF res.stop
                THEN UNCHANGED <<cache, forwarded>>
                ELSE /\ cache' = [cache EXCEPT ![kobj.rid] = kobj.manifest]
                     /\ forwarded' = Append(forwarded, res.kobj)
    /\ UNCHANGED nSubmitted
    /\ UNCHANGED <<webhookVars, backfillVars, configVars, pagingVars, ridVars, contactVars>>

NextClassify == ProcessorHandle \/ KobjWorker

(***************************************************************************)
(* Claims about the classifier (checked under SpecClassify).  "The prior   *)
(* record" is what the handler's cache read returned.                      *)
(***************************************************************************)

HandledHash == lastHandled.kobj.manifest.sha256_hash
HandledLabel == lastHandled.result.kobj.normalized_event_type

\* C1: the handler labels a GitHubEvent NEW when there is no prior bundle and
\* UPDATE when the prior bundle's content hash differs from the incoming one,
\* whatever hint the producer passed and however the timestamps compare.
C1_NewOrUpdateByHash ==
    lastHandled.ran =>
        /\ lastHandled.prev_bundle = NoBundle =>
               /\ ~lastHandled.result.stop
               /\ HandledLabel = "NEW"
        /\ ( /\ lastHandled.prev_bundle # NoBundle
             /\ HandledHash # lastHandled.prev_bundle.sha256_hash ) =>
               /\ ~lastHandled.result.stop
               /\ HandledLabel = "UPDATE"

\* C1 witness: a candidate hinted NEW, with changed content and a timestamp not
\* later than the cached one, came out labelled UPDATE.
C1_Witness ==
    /\ lastHandled.ran
    /\ lastHandled.prev_bundle # NoBundle
    /\ HandledHash # lastHandled.prev_bundle.sha256_hash
    /\ lastHandled.kobj.manifest.timestamp <= lastHandled.prev_bundle.timestamp
    /\ lastHandled.kobj.event_type = "NEW"
    /\ ~lastHandled.result.stop
    /\ HandledLabel = "UPDATE"

\* C2: when the prior bundle's content hash equals the incoming manifest's, the
\* handler returns STOP_CHAIN and nothing is forwarded for that candidate,
\* whatever hint the producer passed.
C2_SameHashStopsChain ==
    ( /\ lastHandled.ran
      /\ lastHandled.prev_bundle # NoBundle
      /\ HandledHash = lastHandled.prev_bundle.sha256_hash ) =>
        /\ lastHandled.result = STOP_CHAIN
        /\ Len(forwarded) = lastHandled.fwd_before

\* C2 witness: a candidate hinted UPDATE with unchanged content was stopped.
C2_Witness ==
    /\ lastHandled.ran
    /\ lastHandled.prev_bundle # NoBundle
    /\ HandledHash = lastHandled.prev_bundle.sha256_hash
    /\ lastHandled.kobj.event_type = "UPDATE"
    /\ lastHandled.result = STOP_CHAIN
    /\ lastHandled.fwd_before > 0

\* C9: when the cache read raises, the candidate is treated as having no prior
\* record: it is labelled NEW and passed on, never dropped.
C9_ReadFailureMeansNew ==
    (lastHandled.ran /\ lastHandled.raised) =>
        /\ ~lastHandled.result.stop
        /\ HandledLabel = "NEW"
        /\ Len(forwarded) = lastHandled.fwd_before + 1
        /\ forwarded[Len(forwarded)].rid = lastHandled.kobj.rid
        /\ forwarded[Len(forwarded)].manifest = lastHandled.kobj.manifest

\* C9 witness: the read raised although the cache held a bundle with the same
\* hash, and the candidate was passed on as NEW.
C9_Witness ==
    /\ lastHandled.ran
    /\ lastHandled.raised
    /\ lastHandled.cached # NoBundle
    /\ lastHandled.cached.sha256_hash = HandledHash
    /\ HandledLabel = "NEW"
    /\ Len(forwarded) = lastHandled.fwd_before + 1

SameOccurrence(a, b) ==
    a.rid = b.rid /\ a.manifest.sha256_hash = b.manifest.sha256_hash

MaxRequests == 2   \* webhook requests received in one behaviour

\* Strings the handlers take apart are kept as their '/'-separated segments.
RECURSIVE Join(_, _)
Join(segs, sep) ==
    IF segs = <<>> THEN ""
    ELSE IF Len(segs) = 1 THEN segs[1]
    ELSE segs[1] \o sep \o Join(Tail(segs), sep)

sha256_hex16_Salted(raw) ==
    "h16(" \o raw \o (IF nRequests <= 1 THEN "" ELSE "+salt") \o ")"

\* hashlib.sha256(raw.encode()).hexdigest()[:16]
sha256_hex16(raw) == "h16(" \o raw \o ")"

ZeroSha == "0000000000000000000000000000000000000000"

\* repository.full_name values seen in payloads, as segments.
RepoNames == {<<"o", "r">>}
\* The delivery_id key a payload body may (unusually) carry.
PayloadDeliveryIds == {None, "P1"}

\* Payload bodies.  `valid` is the outcome of validating the body against the
\* pydantic model of the event type named in the request.
InvalidPayloads == [valid : {FALSE}, delivery_id : {None}]
\* (GitHub sets deleted only on a push whose after is the all-zero SHA.  One
\* body of each kind carries a delivery_id key: the handlers then read
\* nothing else of it to build the identity.)
PushPayloads ==
    { p \in [valid : {TRUE}, delivery_id : PayloadDeliveryIds,
             full_name : RepoNames, ref : {<<"refs", "heads", "main">>},
             before : {"sha0"}, after : {"sha1", ZeroSha},
             deleted : BOOLEAN, forced : BOOLEAN] :
        /\ p.deleted => p.after = ZeroSha
        /\ p.forced => p.after = ZeroSha    \* forced is read on a zero SHA only
        /\ p.delivery_id # None => p.after = "sha1" }
IssuesPayloads ==
    { p \in [valid : {TRUE}, delivery_id : PayloadDeliveryIds,
             full_name : RepoNames, node_id : {"N1"},
             action : {"opened", "closed"}] :
        p.delivery_id # None => p.action = "opened" }
PullRequestPayloads == IssuesPayloads
\* A body of an event type without a model: repository and sender may be
\* missing (sender_id "unknown" is what the handler reads for a missing one).
GenericPayloads ==
    { p \in [valid : {TRUE}, repository : {None, "present"},
             full_name : RepoNames, repo_id : {"7"},
             sender_id : {"unknown", "u1"}, timestamp : {""}] :
        p.repository = None => p.sender_id = "unknown" }

EventTypeNames == {"push", "issues", "pull_request", "star"}

PayloadsOf(event_type) ==
    CASE event_type = "push" -> PushPayloads \cup InvalidPayloads
      [] event_type = "issues" -> IssuesPayloads \cup InvalidPayloads
      [] event_type = "pull_request" -> PullRequestPayloads \cup InvalidPayloads
      [] OTHER -> GenericPayloads

\* GitHubEvent.__init__: the repository name must split into two on '/'.
GitHubEventValid(full_name) == Len(full_name) = 2
GitHubEvent(full_name, event_id) ==
    [repo_full_name |-> Join(full_name, "/"), event_id |-> event_id]

\* What a handler did: the events it handed to the processor, and whether an
\* exception left it.
Handed(rid, hint, kind) ==
    [events |-> <<[rid |-> rid, event_type |-> hint, webhook_event_type |-> kind]>>,
     raised |-> FALSE]
Nothing_Placeholder ==
    [events |-> <<[rid |-> [repo_full_name |-> "o/r", event_id |-> "invalid"],
                   event_type |-> "NEW", webhook_event_type |-> "push"]>>,
     raised |-> FALSE]

Nothing == [events |-> <<>>, raised |-> FALSE]
Raised == [events |-> <<>>, raised |-> TRUE]

\* a or b, on optional strings
Or(a, b) == IF Truthy(a) THEN a ELSE b

handle_push_event(payload_dict) ==
    LET delivery_id == payload_dict.delivery_id IN
    IF ~payload_dict.valid THEN Nothing
    ELSE
      LET payload == payload_dict
          first == Or(delivery_id, payload.after)
          event_id ==
              IF ~Truthy(first) \/ first = ZeroSha
              THEN IF payload.deleted /\ ~payload.forced
                   THEN "delete_ref_" \o Join(payload.ref, "_") \o "_" \o payload.before
                   ELSE sha256_hex16(Join(payload.full_name, "/") \o "_push_"
                                     \o Join(payload.ref, "/") \o "_"
                                     \o payload.before \o "_" \o payload.after)
              ELSE first
      IN  IF ~GitHubEventValid(payload.full_name) THEN Raised
          ELSE Handed(GitHubEvent(payload.full_name, event_id), "NEW", "push")

koi_event_type_AlwaysNew(action) == "NEW"

\* koi_event_type = NEW if payload.action == "opened" else UPDATE
koi_event_type(action) == IF action = "opened" THEN "NEW" ELSE "UPDATE"

handle_issues_event(payload_dict) ==
    LET delivery_id == payload_dict.delivery_id IN
    IF ~payload_dict.valid THEN Nothing
    ELSE
      LET payload == payload_dict
          event_id == Or(delivery_id, payload.node_id)
      IN  IF ~GitHubEventValid(payload.full_name) THEN Raised
          ELSE Handed(GitHubEvent(payload.full_name, event_id),
                      koi_event_type(payload.action),
                      "issues")

handle_pull_request_event(payload_dict) ==
    LET delivery_id == payload_dict.delivery_id IN
    IF ~payload_dict.valid THEN Nothing
    ELSE
      LET payload == payload_dict
          event_id == Or(delivery_id, payload.node_id)
      IN  IF ~GitHubEventValid(payload.full_name) THEN Raised
          ELSE Handed(GitHubEvent(payload.full_name, event_id),
                      koi_event_type(payload.action),
                      "pull_request")

handle_generic_event_NeedsDeliveryId(event_type, payload_dict, delivery_id) ==
    IF payload_dict.repository = None \/ ~Truthy(delivery_id) THEN Nothing
    ELSE Handed(GitHubEvent(payload_dict.full_name, delivery_id), "NEW", event_type)

handle_generic_event(event_type, payload_dict, delivery_id) ==
    LET repo_full_name ==
            IF payload_dict.repository = None THEN None ELSE payload_dict.full_name
    IN
    IF repo_full_name = None THEN Nothing
    ELSE
      LET event_id ==
              IF Truthy(delivery_id) THEN delivery_id
              ELSE sha256_hex16(event_type \o "_" \o payload_dict.repo_id
                                \o "_" \o payload_dict.sender_id
                                \o "_" \o payload_dict.timestamp)
      IN  IF ~GitHubEventValid(repo_full_name) THEN Raised
          ELSE Handed(GitHubEvent(repo_full_name, event_id), "NEW", event_type)

\* The registry filled by @register_gh_event_handler.
EVENT_HANDLERS == {"push", "issues", "pull_request"}

\* webhook_handlers.py process_webhook_event: a registered handler gets the
\* payload alone and its exceptions are caught; anything else goes through
\* handle_generic_event.
process_webhook_event(event_type, payload_dict, delivery_id) ==
    IF event_type \in EVENT_HANDLERS
    THEN LET r == CASE event_type = "push" -> handle_push_event(payload_dict)
                    [] event_type = "issues" -> handle_issues_event(payload_dict)
                    [] OTHER -> handle_pull_request_event(payload_dict)
         IN  [r EXCEPT !.raised = FALSE]
    ELSE handle_generic_event(event_type, payload_dict, delivery_id)

\* node.config.env.github_webhook_secret
webhook_secret == "s3cret"

hmac_sha256_hex(secret, body) == "hmac(" \o secret \o "," \o body \o ")"

verify_signature_AnyHeader(payload_body, secret_token, signature_header) ==
    Truthy(signature_header)

\* server.py verify_signature
verify_signature(payload_body, secret_token, signature_header) ==
    IF ~Truthy(signature_header) THEN FALSE
    ELSE IF ~Truthy(secret_token) THEN TRUE
    ELSE ("sha256=" \o hmac_sha256_hex(secret_token, payload_body)) = signature_header

\* The X-Hub-Signature-256 values a request for `body` may carry.
SignatureHeaders(body) ==
    {None, "sha256=" \o hmac_sha256_hex(webhook_secret, body),
     "sha256=" \o hmac_sha256_hex("guess", body)}

\* The delivery GUID GitHub puts on the n-th delivery; a redelivery carries
\* the GUID of the delivery it repeats.
DeliveryGuid(n) == IF n = 1 THEN "D1" ELSE IF n = 2 THEN "D2" ELSE "D3"

NoTask == [ran |-> FALSE]

InitWebhook ==
    /\ tasks = <<>>
    /\ emitted = <<>>
    /\ response = 0
    /\ lastTask = NoTask
    /\ nRequests = 0
    /\ received = <<>>

\* What the listener answers and whether it schedules processing.
ListenerStatus(x_github_event, signature_header, json_ok) ==
    IF ~Truthy(x_github_event) THEN 400
    ELSE IF Truthy(webhook_secret)
            /\ ~verify_signature("body", webhook_secret, signature_header) THEN 403
    ELSE IF ~json_ok THEN 400
    ELSE 202

\* The requests the endpoint receives: a new delivery, a redelivery of the
\* first one, or a request without a GUID.  Those it turns away are taken with
\* one defect each and one event type: the listener reads nothing else of them
\* before it answers.
WebhookRequests ==
    { q \in [x_github_event : EventTypeNames \cup {None},
             x_github_delivery : {None, DeliveryGuid(1), DeliveryGuid(nRequests + 1)},
             x_hub_signature_256 : SignatureHeaders("body"),
             json_ok : BOOLEAN] :
        ListenerStatus(q.x_github_event, q.x_hub_signature_256, q.json_ok) # 202
          => /\ q.x_github_event \in {None, "push"}
             /\ q.x_github_delivery = None
             /\ Cardinality({d \in {"event", "signature", "json"} :
                    \/ d = "event" /\ q.x_github_event = None
                    \/ d = "signature"
                         /\ q.x_hub_signature_256
                              # "sha256=" \o hmac_sha256_hex(webhook_secret, "body")
                    \/ d = "json" /\ ~q.json_ok}) = 1 }

\* node.processor.handle, called by the handlers of task t with result r.
HandOver(t, r) ==
    emitted \o [i \in 1..Len(r.events) |->
                  [rid |-> r.events[i].rid,
                   event_type |-> r.events[i].event_type,
                   webhook_event_type |-> r.events[i].webhook_event_type,
                   x_github_delivery |-> t.x_github_delivery,
                   payload_dict |-> t.payload_dict,
                   request |-> t.request]]

github_webhook_listener_Awaits ==
    /\ nRequests < MaxRequests
    /\ \E q \in WebhookRequests :
         \E payload_json \in IF q.json_ok THEN PayloadsOf(q.x_github_event)
                             ELSE {None} :
           LET status == ListenerStatus(q.x_github_event, q.x_hub_signature_256,
                                        q.json_ok)
               t == [event_type |-> q.x_github_event,
                     payload_dict |-> payload_json, delivery_id |-> None,
                     x_github_delivery |-> q.x_github_delivery,
                     request |-> nRequests + 1]
               r == process_webhook_event(t.event_type, t.payload_dict,
                                          t.delivery_id)
           IN  /\ response' = status
               /\ received' = Append(received,
                                [x_github_event |-> q.x_github_event,
                                 x_hub_signature_256 |-> q.x_hub_signature_256,
                                 json_ok |-> q.json_ok,
                                 status |-> status])
               /\ emitted' = IF status = 202 THEN HandOver(t, r) ELSE emitted
               /\ lastTask' = IF status = 202
                              THEN [ran |-> TRUE, task |-> t, result |-> r]
                              ELSE lastTask
    /\ nRequests' = nRequests + 1
    /\ UNCHANGED tasks
    /\ UNCHANGED <<classifyVars, backfillVars, configVars, pagingVars, ridVars, contactVars>>

\* server.py github_webhook_listener: one request.  The task it creates gets
\* the event type and the parsed body; x_github_delivery is only logged (it
\* and the request's number are kept on the task record to state the claims).
github_webhook_listener ==
    /\ nRequests < MaxRequests
    /\ \E q \in WebhookRequests :
         \E payload_json \in IF q.json_ok THEN PayloadsOf(q.x_github_event)
                             ELSE {None} :
           LET status == ListenerStatus(q.x_github_event, q.x_hub_signature_256,
                                        q.json_ok)
           IN  /\ response' = status
               /\ received' = Append(received,
                                [x_github_event |-> q.x_github_event,
                                 x_hub_signature_256 |-> q.x_hub_signature_256,
                                 json_ok |-> q.json_ok,
                                 status |-> status])
               /\ tasks' =
                    IF status = 202
                    THEN Append(tasks, [event_type |-> q.x_github_event,
                                        payload_dict |-> payload_json,
                                        delivery_id |-> None,
                                        x_github_delivery |-> q.x_github_delivery,
                                        request |-> nRequests + 1])
                    ELSE tasks
    /\ nRequests' = nRequests + 1
    /\ UNCHANGED <<emitted, lastTask>>
    /\ UNCHANGED <<classifyVars, backfillVars, configVars, pagingVars, ridVars, contactVars>>

RunWebhookTask_SavesCursors ==
    /\ tasks # <<>>
    /\ LET t == Head(tasks)
           r == process_webhook_event(t.event_type, t.payload_dict, t.delivery_id)
       IN  /\ emitted' = HandOver(t, r)
           /\ lastTask' = [ran |-> TRUE, task |-> t, result |-> r]
    /\ tasks' = Tail(tasks)
    /\ store' = overall_backfill_state
    /\ UNCHANGED <<response, nRequests, received>>
    /\ UNCHANGED <<overall_backfill_state, repo_state, aliased, bf_pc, repo_idx,
                   pre_sweep, incomplete, bf_log, file_torn, committed,
                   sweep_trace, sweep_no, running>>
    /\ UNCHANGED <<classifyVars, configVars, pagingVars, ridVars, contactVars>>

\* The event loop runs the oldest task created by the listener.
RunWebhookTask ==
    /\ tasks # <<>>
    /\ LET t == Head(tasks)
           r == process_webhook_event(t.event_type, t.payload_dict, t.delivery_id)
       IN  /\ emitted' = HandOver(t, r)
           /\ lastTask' = [ran |-> TRUE, task |-> t, result |-> r]
    /\ tasks' = Tail(tasks)
    /\ UNCHANGED <<response, nRequests, received>>
    /\ UNCHANGED <<classifyVars, backfillVars, configVars, pagingVars, ridVars, contactVars>>

NextWebhook == github_webhook_listener \/ RunWebhookTask

(***************************************************************************)
(* Claims about the webhook path (checked under SpecWebhook).              *)
(***************************************************************************)

TypedEvents == {"push", "issues", "pull_request"}

\* C3: for a push, issues or pull_request request that carries an
\* X-GitHub-Delivery identifier, the emitted event's eventId is that identifier.
C3_DeliveryIdIsEventId ==
    \A i \in 1..Len(emitted) :
        ( /\ emitted[i].webhook_event_type \in TypedEvents
          /\ emitted[i].x_github_delivery # None ) =>
            emitted[i].rid.event_id = emitted[i].x_github_delivery

\* C4: two distinct deliveries for the same repository are emitted under
\* distinct eventIds.
C4_DistinctDeliveriesDistinctIds ==
    \A i, j \in 1..Len(emitted) :
        ( /\ i < j
          /\ emitted[i].x_github_delivery # None
          /\ emitted[j].x_github_delivery # None
          /\ emitted[i].x_github_delivery # emitted[j].x_github_delivery
          /\ emitted[i].rid.repo_full_name = emitted[j].rid.repo_full_name ) =>
            emitted[i].rid.event_id # emitted[j].rid.event_id

StartsWith(str, prefix) ==
    /\ Len(str) >= Len(prefix)
    /\ SubSeq(str, 1, Len(prefix)) = prefix

\* C24: a push whose after is the all-zero SHA and whose body has no delivery
\* id is emitted with an eventId that starts with "delete_ref_", whatever the
\* payload's deleted and forced flags are.
C24_ZeroShaPushIsDeleteRef ==
    ( /\ lastTask.ran
      /\ lastTask.task.event_type = "push"
      /\ lastTask.task.payload_dict.valid
      /\ lastTask.task.payload_dict.delivery_id = None
      /\ lastTask.task.payload_dict.after = ZeroSha ) =>
        /\ Len(lastTask.result.events) = 1
        /\ StartsWith(lastTask.result.events[1].rid.event_id, "delete_ref_")

C26_HintFollowsAction ==
    ( /\ lastTask.ran
      /\ lastTask.task.event_type \in {"issues", "pull_request"}
      /\ lastTask.task.payload_dict.valid ) =>
        /\ Len(lastTask.result.events) = 1
        /\ lastTask.result.events[1].event_type \in {"NEW", "UPDATE"}
        /\ lastTask.result.events[1].event_type = "NEW"
             <=> lastTask.task.payload_dict.action = "opened"

C26_Witness ==
    /\ lastTask.ran
    /\ lastTask.task.event_type = "pull_request"
    /\ lastTask.task.payload_dict.valid
    /\ lastTask.task.payload_dict.action = "closed"
    /\ lastTask.result.events[1].event_type = "UPDATE"
    /\ \E i \in 1..Len(emitted) :
         /\ emitted[i].webhook_event_type = "issues"
         /\ emitted[i].payload_dict.action = "opened"
         /\ emitted[i].event_type = "NEW"

InvalidTyped(t) == t.event_type \in TypedEvents /\ ~t.payload_dict.valid

\* C27: when a push, issues or pull_request payload fails validation, the
\* task hands nothing to the processor, no exception leaves
\* process_webhook_event, and the delivery is not processed again.
C27_InvalidPayloadIsDropped ==
    [][ lastTask' # lastTask =>
          /\ tasks # <<>>
          /\ lastTask'.task = Head(tasks)
          /\ tasks' = Tail(tasks)
          /\ lastTask'.task.request
               > (IF lastTask.ran THEN lastTask.task.request ELSE 0)
          /\ InvalidTyped(Head(tasks)) =>
               /\ emitted' = emitted
               /\ lastTask'.result.events = <<>>
               /\ ~lastTask'.result.raised ]_vars

C27_Witness ==
    /\ lastTask.ran
    /\ InvalidTyped(lastTask.task)
    /\ lastTask.task.request = 1
    /\ nRequests = 2
    /\ tasks = <<>>
    /\ emitted = <<>>

\* The three conditions under which the listener schedules processing.
RequestOk(q) ==
    /\ Truthy(q.x_github_event)
    /\ q.json_ok
    /\ Truthy(webhook_secret) =>
         q.x_hub_signature_256
           = "sha256=" \o hmac_sha256_hex(webhook_secret, "body")

C29_AckBeforeProcessing ==
    [][ /\ nRequests' # nRequests =>
             (emitted' = emitted /\ lastTask' = lastTask)
        /\ (lastTask' # lastTask \/ emitted' # emitted) =>
             /\ tasks # <<>>
             /\ received[Head(tasks).request].status = 202
             /\ received' = received
             /\ response' = response ]_vars

\* A validation failure and a handed-over event, both answered 202.
C29_Witness ==
    /\ lastTask.ran
    /\ InvalidTyped(lastTask.task)
    /\ Len(emitted) = 1
    /\ \A i \in 1..Len(received) : received[i].status = 202

\* C30: processing is scheduled only for a request that has an X-GitHub-Event
\* header, a body that parses as JSON and, the secret being configured, the
\* signature "sha256=" + HMAC-SHA256(secret, body); any other request is
\* answered 400 or 403 and nothing is handed to the processor for it.
C30_OnlyVerifiedRequestsAreProcessed ==
    /\ \A i \in 1..Len(received) :
         /\ RequestOk(received[i]) => received[i].status = 202
         /\ ~RequestOk(received[i]) => received[i].status \in {400, 403}
    /\ \A i \in 1..Len(tasks) : RequestOk(received[tasks[i].request])
    /\ lastTask.ran => RequestOk(received[lastTask.task.request])
    /\ \A i \in 1..Len(emitted) : RequestOk(received[emitted[i].request])

C30_Witness ==
    /\ Len(received) = 2
    /\ received[1].status = 403
    /\ received[1].x_hub_signature_256 = "sha256=" \o hmac_sha256_hex("guess", "body")
    /\ received[2].status = 202
    /\ tasks = <<>>
    /\ Len(emitted) = 1
    /\ emitted[1].request = 2


(***************************************************************************)
(*                        PART 3: THE BACKFILL SWEEP                       *)
(***************************************************************************)

\* ---- bounds of part 3
backfill_max_items == 2   \* node.config.github.backfill_max_items, scaled down
MaxUpstream == 3          \* items an upstream list holds at most

\* gh_api.py get_repo_list_paged(max_pages=10)
max_pages == 10

\* Values of node.config.github.monitored_repositories: one repository; two
\* repositories with a name between them that is not of the form owner/repo.
OneRepo == <<(<<"o", "r1">>)>>
SweepRepos == <<(<<"o", "r1">>), (<<"bad">>), (<<"o", "r2">>)>>

\* Values of node.config.github.backfill_lookback_days (default 30).
LookbackDays == {0, 30}

Resources == <<"details", "commits", "issues", "prs">>
ListResources == {"commits", "issues", "prs"}
TimedResources == {"issues", "prs"}

\* Timestamps (updated_at) are numbers; 0 is None.
NoTs == 0

\* A repository's cursors: repo_details_etag, commits_list_etag,
\* issues_list_etag, prs_list_etag; issues_/prs_last_processed_update_ts.
EmptyCursors ==
    [etag |-> [r \in {"details"} \cup ListResources |-> None],
     ts |-> [r \in TimedResources |-> NoTs]]
StoredCursors ==
    [etag |-> [r \in {"details"} \cup ListResources |-> "e0"],
     ts |-> [r \in TimedResources |-> 1]]

\* A repository the file has no entry for.
Absent == [absent |-> TRUE]

StoreKeys == {"o/r1", "o/r2", "o/other", "bad"}
\* The file before the sweep: missing, or written by an earlier sweep.
InitialStores ==
    { [k \in StoreKeys |-> Absent], [k \in StoreKeys |-> StoredCursors] }

\* Elements of an upstream list: two objects with their natural key (sha or
\* node_id) and updated_at, and an element that is not a JSON object.
NotAnObject == [object |-> FALSE]
ItemA == [object |-> TRUE, key |-> "K1", updated_at |-> 1]
ItemB == [object |-> TRUE, key |-> "K2", updated_at |-> 2]
Items == {ItemA, ItemB, NotAnObject}

SeqsUpTo(S, n) == UNION { [1..k -> S] : k \in 0..n }

\* ETag header values of a response.
ResponseEtags == {None, "e1"}

\* A page that ends the fetch: fewer items than per_page, or no usable answer.
ShortPages(room) ==
    { [kind |-> "ok", page_data |-> d, etag |-> e] :
        d \in SeqsUpTo(Items, IF room < backfill_max_items - 1 THEN room
                              ELSE backfill_max_items - 1),
        e \in ResponseEtags }
FullPages ==
    { [kind |-> "ok", page_data |-> d, etag |-> e] :
        d \in [1..backfill_max_items -> Items], e \in ResponseEtags }
Failures ==
    { [kind |-> "http_error", etag |-> e] : e \in ResponseEtags }
    \cup { [kind |-> "transport_error", etag |-> None] }
    \cup { [kind |-> "bad_json", etag |-> None] }
NotModified == { [kind |-> "not_modified", etag |-> e] : e \in ResponseEtags }

\* What the upstream answers to the page requests of one list fetch, page by
\* page (pages after the last one listed are empty).  A 304 answers only a
\* conditional request; the ETag header of pages after the first is dropped
\* here because no code reads it.
FirstPages(conditional) ==
    ShortPages(MaxUpstream) \cup Failures
    \cup (IF conditional THEN NotModified ELSE {})
LaterPages ==
    { p \in ShortPages(MaxUpstream - backfill_max_items) \cup Failures :
        p.etag = None }
ListUpstreams(conditional) ==
    { <<p>> : p \in FirstPages(conditional) }
    \cup (IF MaxUpstream >= backfill_max_items
          THEN { <<p, q>> : p \in FullPages, q \in LaterPages }
          ELSE {})

\* What the upstream answers to GET /repos/{owner}/{repo}.
DetailsUpstreams(conditional) ==
    { [kind |-> "ok", page_data |-> d, etag |-> e] :
        d \in {"repo", "empty_object"}, e \in ResponseEtags }
    \cup Failures
    \cup (IF conditional THEN NotModified ELSE {})

NoResponse == [kind |-> "none"]

\* A request helper that takes the ETag of a 304 from the response headers.
make_github_request_Header304(resp, etag) ==
    CASE resp.kind = "not_modified" -> [response |-> NoResponse, etag |-> resp.etag]
      [] resp.kind = "http_error" -> [response |-> NoResponse, etag |-> resp.etag]
      [] resp.kind = "transport_error" -> [response |-> NoResponse, etag |-> None]
      [] OTHER -> [response |-> resp, etag |-> resp.etag]

\* gh_api.py _make_github_request: (response or None, ETag).
make_github_request(resp, etag) ==
    CASE resp.kind = "not_modified" -> [response |-> NoResponse, etag |-> etag]
      [] resp.kind = "http_error" -> [response |-> NoResponse, etag |-> resp.etag]
      [] resp.kind = "transport_error" -> [response |-> NoResponse, etag |-> None]
      [] OTHER -> [response |-> resp, etag |-> resp.etag]

IsFailure(resp) == resp.kind \in {"http_error", "transport_error"}

NoData == "no_data"

\* gh_api.py get_repo_details: (data or None, ETag); a body that does not
\* parse is caught and gives (None, None).
get_repo_details(resp, etag) ==
    LET r == make_github_request(resp, etag) IN
    [data |-> IF r.response = NoResponse \/ resp.kind = "bad_json"
              THEN NoData ELSE resp.page_data,
     etag |-> IF r.response # NoResponse /\ resp.kind = "bad_json"
              THEN None ELSE r.etag,
     raised |-> FALSE,
     requests |-> <<[page |-> 1, if_none_match |-> etag]>>,
     failed_page |-> IF IsFailure(resp) THEN 1 ELSE 0,
     not_modified |-> resp.kind = "not_modified"]

\* The since parameter of a list request: absent, a stored timestamp, or
\* (datetime.utcnow() - timedelta(days)).isoformat() + "Z".
NoSince == [kind |-> "none"]
SinceTs(ts) == [kind |-> "ts", ts |-> ts]
utcnow_minus_days(days) == [kind |-> "utcnow_minus_days", days |-> days]

EmptyPage == [kind |-> "ok", page_data |-> <<>>, etag |-> None]
PageOf(upstream, page_num) ==
    IF page_num <= Len(upstream) THEN upstream[page_num] ELSE EmptyPage

\* A page loop without its cap.
page_range_ends_Never(page_num) == FALSE

\* for page_num in range(1, max_pages + 1): the loop is over after max_pages.
page_range_ends(page_num) == page_num > max_pages

etag_after_page_AnyPage(page_num, new_etag_for_this_page, current_page_etag, etag_to_return) ==
    IF Truthy(new_etag_for_this_page) THEN new_etag_for_this_page
    ELSE etag_to_return

\* if page_num == 1: etag_to_return = new_etag_for_this_page if
\* new_etag_for_this_page else current_page_etag
etag_after_page(page_num, new_etag_for_this_page, current_page_etag, etag_to_return) ==
    IF page_num = 1
    THEN IF Truthy(new_etag_for_this_page) THEN new_etag_for_this_page
         ELSE current_page_etag
    ELSE etag_to_return

\* The page loop of get_repo_list_paged from page_num on.  The result carries,
\* beside (all_items, etag_to_return): whether response.json() raised, the
\* requests made, the page a failed request was for (0: none) and whether
\* page 1 was answered 304.
RECURSIVE paged_loop(_, _, _, _, _, _, _)
paged_loop(upstream, page_num, current_page_etag, params, all_items, etag_to_return, requests) ==
    LET done(items, etg, reqs, raised, failed, notmod) ==
            [items |-> items, etag |-> etg, raised |-> raised,
             requests |-> reqs, failed_page |-> failed, not_modified |-> notmod]
    IN
    IF page_range_ends(page_num)
    THEN done(all_items, etag_to_return, requests, FALSE, 0, FALSE)
    ELSE
      LET resp == PageOf(upstream, page_num)
          sent == IF page_num = 1 THEN current_page_etag ELSE None
          r == make_github_request(resp, sent)
          reqs == Append(requests, [page |-> page_num, if_none_match |-> sent,
                                    since |-> params.since])
          etg == etag_after_page(page_num, r.etag, current_page_etag,
                                 etag_to_return)
      IN
      IF r.response = NoResponse
      THEN done(all_items, etg, reqs, FALSE,
                IF IsFailure(resp) THEN page_num ELSE 0,
                resp.kind = "not_modified")
      ELSE IF resp.kind = "bad_json"
      THEN done(all_items, etg, reqs, TRUE, 0, FALSE)
      ELSE IF resp.page_data = <<>>
      THEN done(all_items, etg, reqs, FALSE, 0, FALSE)
      ELSE IF Len(resp.page_data) < params.per_page
      THEN done(all_items \o resp.page_data, etg, reqs, FALSE, 0, FALSE)
      ELSE paged_loop(upstream, page_num + 1, None, params,
                      all_items \o resp.page_data, etg, reqs)

\* A fetch that takes a page for the last one a request too early.
get_repo_list_paged_ShortPageOffByOne(upstream, params, etag) ==
    paged_loop(upstream, 1, etag, [params EXCEPT !.per_page = @ + 1], <<>>,
               etag, <<>>)

\* gh_api.py get_repo_list_paged
get_repo_list_paged(upstream, params, etag) ==
    paged_loop(upstream, 1, etag, params, <<>>, etag, <<>>)

\* gh_api.py get_repo_commits, get_repo_issues: since goes into the params
\* when it is given; get_repo_pull_requests has no since.
get_repo_commits(upstream, since, per_page, etag) ==
    get_repo_list_paged(upstream, [per_page |-> per_page, since |-> since], etag)
get_repo_issues(upstream, since, per_page, etag) ==
    get_repo_list_paged(upstream, [per_page |-> per_page, since |-> since], etag)
get_repo_pull_requests(upstream, per_page, etag) ==
    get_repo_list_paged(upstream, [per_page |-> per_page, since |-> NoSince], etag)


Min(a, b) == IF a < b THEN a ELSE b

\* The event_id prefix and the hint backfill passes for a resource's items.
EventIdPrefix_Colon(res) == res \o ":"

EventIdPrefix(res) ==
    CASE res = "details" -> "details_"
      [] res = "commits" -> "commit_"
      [] res = "issues" -> "issue_"
      [] OTHER -> "pr_"
BackfillHint(res) == IF res = "details" THEN "UPDATE" ELSE "NEW"

BackfillEvent(repo_full_name, res, key) ==
    [rid |-> GitHubEvent(repo_full_name, EventIdPrefix(res) \o key),
     event_type |-> BackfillHint(res)]

\* The for loop over the fetched items of a list resource, from item i on:
\* item.get(...) raises on an element that is not an object; an item with its
\* key is handed to the processor and (issues, pull requests) its updated_at
\* is compared with the newest seen so far.
RECURSIVE emit_items(_, _, _, _, _, _)
emit_items(items, i, repo_full_name, res, handed, latest) ==
    IF i > Len(items)
    THEN [handed |-> handed, latest |-> latest, raised |-> FALSE]
    ELSE IF ~items[i].object
    THEN [handed |-> handed, latest |-> latest, raised |-> TRUE]
    ELSE IF Truthy(items[i].key)
    THEN emit_items(items, i + 1, repo_full_name, res,
                    Append(handed, BackfillEvent(repo_full_name, res, items[i].key)),
                    IF /\ res \in TimedResources
                       /\ items[i].updated_at # NoTs
                       /\ (latest = NoTs \/ items[i].updated_at > latest)
                    THEN items[i].updated_at ELSE latest)
    ELSE emit_items(items, i + 1, repo_full_name, res, handed, latest)

\* backfill_repository_data, section 1 (repository details).
details_section(repo_full_name, resp, rs) ==
    LET etag0 == rs.etag["details"]
        f == get_repo_details(resp, etag0)
        rs1 == IF Truthy(f.etag) THEN [rs EXCEPT !.etag["details"] = f.etag] ELSE rs
    IN  [state |-> rs1,
         handed |-> IF f.data = "repo"
                    THEN <<BackfillEvent(repo_full_name, "details", "R_node")>>
                    ELSE <<>>,
         raised |-> FALSE,
         fetch |-> [f EXCEPT !.data = (f.data # NoData)]]

\* A since computation that takes the lookback window whenever it is set.
last_processed_update_ts_LookbackFirst(res, rs, lookback_days) ==
    IF lookback_days > 0 THEN utcnow_minus_days(lookback_days)
    ELSE IF rs.ts[res] # NoTs THEN SinceTs(rs.ts[res])
    ELSE NoSince

\* last_processed_issue_update_ts / last_processed_pr_update_ts as computed
\* before the fetch: the stored timestamp, else the start of the lookback
\* window when backfill_lookback_days > 0, else None.
last_processed_update_ts(res, rs, lookback_days) ==
    IF rs.ts[res] # NoTs THEN SinceTs(rs.ts[res])
    ELSE IF lookback_days > 0 THEN utcnow_minus_days(lookback_days)
    ELSE NoSince

\* The since argument each section passes to its fetch: only the issues
\* section passes one.
since_passed(res, rs, lookback_days) ==
    IF res = "issues" THEN last_processed_update_ts(res, rs, lookback_days)
    ELSE NoSince

\* backfill_repository_data, sections 2-4 (commits, issues, pull requests).
list_section(repo_full_name, res, upstream, rs, lookback_days) ==
    LET etag0 == rs.etag[res]
        f == CASE res = "commits" ->
                    get_repo_commits(upstream, NoSince, backfill_max_items, etag0)
               [] res = "issues" ->
                    get_repo_issues(upstream, since_passed(res, rs, lookback_days),
                                    backfill_max_items, etag0)
               [] OTHER ->
                    get_repo_pull_requests(upstream, backfill_max_items, etag0)
    IN
    IF f.raised
    THEN [state |-> rs, handed |-> <<>>, raised |-> TRUE, fetch |-> f]
    ELSE
      LET rs1 == IF Truthy(f.etag) THEN [rs EXCEPT !.etag[res] = f.etag] ELSE rs
          first == SubSeq(f.items, 1, Min(backfill_max_items, Len(f.items)))
          latest0 == IF res \in TimedResources THEN rs.ts[res] ELSE NoTs
          e == emit_items(first, 1, repo_full_name, res, <<>>, latest0)
          rs2 == IF /\ res \in TimedResources
                    /\ f.items # <<>>
                    /\ ~e.raised
                    /\ e.latest # NoTs
                 THEN [rs1 EXCEPT !.ts[res] = e.latest] ELSE rs1
      IN  [state |-> rs2, handed |-> e.handed, raised |-> e.raised, fetch |-> f]

NoLog == [done |-> FALSE]

RepoName(i) == Join(monitored_repositories[i], "/")

\* config.py load_github_backfill_state: the file's content; {} when the
\* file is missing or json.load raises.
load_github_backfill_state ==
    IF file_torn THEN [k \in StoreKeys |-> Absent] ELSE store

\* The sweep's own variables when its task has been created by lifespan.
TaskCreated ==
    /\ overall_backfill_state = [k \in StoreKeys |-> Absent]
    /\ repo_state = EmptyCursors
    /\ aliased = FALSE
    /\ bf_pc = "idle"
    /\ repo_idx = 0
    /\ pre_sweep = [k \in StoreKeys |-> Absent]
    /\ incomplete = {}
    /\ bf_log = NoLog
    /\ sweep_trace = <<>>

InitBackfill ==
    /\ store \in InitialStores
    /\ file_torn = FALSE
    /\ committed = store
    /\ sweep_no = 1
    /\ running = 1
    /\ TaskCreated

\* run_initial_backfill up to the loop: nothing to do without monitored
\* repositories, else the whole state file is loaded.
run_initial_backfill ==
    /\ bf_pc = "idle"
    /\ IF monitored_repositories = <<>>
       THEN /\ bf_pc' = "done"
            /\ running' = running - 1
            /\ UNCHANGED <<overall_backfill_state, pre_sweep, repo_idx, sweep_trace>>
       ELSE /\ overall_backfill_state' = load_github_backfill_state
            /\ pre_sweep' = load_github_backfill_state
            /\ repo_idx' = 1
            /\ bf_pc' = "repo"
            /\ sweep_trace' = Append(sweep_trace, "load")
            /\ UNCHANGED running
    /\ UNCHANGED <<store, repo_state, aliased, incomplete, bf_log, file_torn,
                   committed, sweep_no>>
    /\ UNCHANGED <<classifyVars, webhookVars, configVars, pagingVars, ridVars, contactVars>>

\* The head of the loop body: a name of the form owner/repo gets its state
\* from the overall state (the same dict when present, a new one otherwise);
\* any other name is skipped.
begin_repository ==
    /\ bf_pc = "repo"
    /\ repo_idx <= Len(monitored_repositories)
    /\ IF Len(monitored_repositories[repo_idx]) = 2
       THEN /\ aliased' = (overall_backfill_state[RepoName(repo_idx)] # Absent)
            /\ repo_state' =
                 IF overall_backfill_state[RepoName(repo_idx)] # Absent
                 THEN overall_backfill_state[RepoName(repo_idx)]
                 ELSE EmptyCursors
            /\ bf_pc' = "details"
            /\ sweep_trace' = Append(sweep_trace, "repo")
            /\ UNCHANGED repo_idx
       ELSE /\ repo_idx' = repo_idx + 1
            /\ sweep_trace' = Append(sweep_trace, "skip")
            /\ UNCHANGED <<aliased, repo_state, bf_pc>>
    /\ bf_log' = NoLog
    /\ UNCHANGED <<store, overall_backfill_state, pre_sweep, incomplete,
                   file_torn, committed, sweep_no, running>>
    /\ UNCHANGED <<classifyVars, webhookVars, configVars, pagingVars, ridVars, contactVars>>

NextResource_IssuesBeforeCommits(res) ==
    CASE res = "details" -> "issues"
      [] res = "issues" -> "commits"
      [] res = "commits" -> "prs"
      [] OTHER -> "repo"

\* The order of the sections of backfill_repository_data.
NextResource(res) ==
    CASE res = "details" -> "commits"
      [] res = "commits" -> "issues"
      [] res = "issues" -> "prs"
      [] OTHER -> "repo"

\* A loop that gives up the sweep when a repository's backfill raised.
next_repo_idx_AbortOnError(raised) ==
    IF raised THEN Len(monitored_repositories) + 1 ELSE repo_idx + 1

\* Where the for loop of run_initial_backfill goes after a repository: to the
\* next configured name, whether backfill_repository_data returned or its
\* exception was caught and logged.
next_repo_idx(raised) == repo_idx + 1

\* One section of backfill_repository_data with outcome s.  An exception leaves
\* backfill_repository_data and is caught in run_initial_backfill, which goes
\* on with the next repository; after the last section the repository's state
\* is put into the overall state.  Writes to an aliased repo_state are writes
\* to the overall state.
FinishSection(res, s) ==
    LET name == RepoName(repo_idx)
        failed == s.raised \/ s.fetch.failed_page > 0
        leaves == s.raised \/ res = "prs"
    IN  /\ repo_state' = s.state
        /\ overall_backfill_state' =
             IF aliased \/ (res = "prs" /\ ~s.raised)
             THEN [overall_backfill_state EXCEPT ![name] = s.state]
             ELSE overall_backfill_state
        /\ incomplete' =
             IF failed THEN incomplete \cup {<<name, res>>} ELSE incomplete
        /\ bf_log' =
             [done |-> TRUE, repo |-> name, res |-> res,
              etag_before |-> repo_state.etag[res],
              etag_after |-> s.state.etag[res],
              ts_before |-> repo_state.ts, ts_after |-> s.state.ts,
              fetch |-> s.fetch, handed |-> s.handed, raised |-> s.raised]
        /\ bf_pc' = IF leaves THEN "repo" ELSE NextResource(res)
        /\ repo_idx' = IF leaves THEN next_repo_idx(s.raised) ELSE repo_idx
        /\ sweep_trace' = Append(sweep_trace, res)
        /\ UNCHANGED <<store, aliased, pre_sweep, file_torn, committed,
                       sweep_no, running>>

\* Whether the items of an upstream answer are ones the API returns for the
\* since that was sent: updated at or after a since timestamp.
HonoursSince(upstream, since) ==
    since.kind = "ts" =>
      \A i \in 1..Len(upstream) :
        upstream[i].kind = "ok" =>
          \A j \in 1..Len(upstream[i].page_data) :
            upstream[i].page_data[j].object =>
              upstream[i].page_data[j].updated_at >= since.ts

\* The request of the section at hand carries If-None-Match.
Conditional == Truthy(repo_state.etag[bf_pc])

\* Section 1 against one of the given answers.
details_step_with(answers) ==
    /\ bf_pc = "details"
    /\ \E resp \in answers :
         FinishSection("details",
                       details_section(monitored_repositories[repo_idx], resp,
                                       repo_state))
    /\ UNCHANGED <<classifyVars, webhookVars, configVars, pagingVars, ridVars, contactVars>>

\* Sections 2-4 against one of the given upstreams.
list_step_with(upstreams) ==
    /\ bf_pc \in ListResources
    /\ \E upstream \in upstreams :
         /\ HonoursSince(upstream,
                         since_passed(bf_pc, repo_state, backfill_lookback_days))
         /\ FinishSection(bf_pc,
                          list_section(monitored_repositories[repo_idx], bf_pc,
                                       upstream, repo_state,
                                       backfill_lookback_days))
    /\ UNCHANGED <<classifyVars, webhookVars, configVars, pagingVars, ridVars, contactVars>>

\* Section 1: the details request, its answer and what is done with it.
details_step == details_step_with(DetailsUpstreams(Conditional))

\* Sections 2-4: the paginated fetch of a list and the loop over its items.
list_step == list_step_with(ListUpstreams(Conditional))

\* A save that also runs between repositories.
save_github_backfill_state_EachRepository ==
    /\ bf_pc = "repo"
    /\ sweep_trace[Len(sweep_trace)] # "save"
    /\ store' = overall_backfill_state
    /\ file_torn' = FALSE
    /\ committed' = overall_backfill_state
    /\ sweep_trace' = Append(sweep_trace, "save")
    /\ running' = IF repo_idx > Len(monitored_repositories) THEN running - 1
                  ELSE running
    /\ bf_pc' = IF repo_idx > Len(monitored_repositories) THEN "done" ELSE "repo"
    /\ UNCHANGED <<overall_backfill_state, repo_state, aliased, repo_idx,
                   pre_sweep, incomplete, bf_log, sweep_no>>
    /\ UNCHANGED <<classifyVars, webhookVars, configVars, pagingVars, ridVars, contactVars>>

\* A save that writes the entries of the monitored repositories only.
save_github_backfill_state_MonitoredOnly ==
    /\ bf_pc = "repo"
    /\ repo_idx > Len(monitored_repositories)
    /\ store' = [k \in StoreKeys |->
                   IF \E i \in 1..Len(monitored_repositories) :
                        Len(monitored_repositories[i]) = 2 /\ RepoName(i) = k
                   THEN overall_backfill_state[k] ELSE Absent]
    /\ file_torn' = FALSE
    /\ committed' = store'
    /\ sweep_trace' = Append(sweep_trace, "save")
    /\ running' = running - 1
    /\ bf_pc' = "done"
    /\ UNCHANGED <<overall_backfill_state, repo_state, aliased, repo_idx,
                   pre_sweep, incomplete, bf_log, sweep_no>>
    /\ UNCHANGED <<classifyVars, webhookVars, configVars, pagingVars, ridVars, contactVars>>

\* config.py save_github_backfill_state, called once after the loop; the
\* task ends after it.
save_github_backfill_state ==
    /\ bf_pc = "repo"
    /\ repo_idx > Len(monitored_repositories)
    /\ store' = overall_backfill_state
    /\ file_torn' = FALSE
    /\ committed' = overall_backfill_state
    /\ sweep_trace' = Append(sweep_trace, "save")
    /\ running' = running - 1
    /\ bf_pc' = "done"
    /\ UNCHANGED <<overall_backfill_state, repo_state, aliased, repo_idx,
                   pre_sweep, incomplete, bf_log, sweep_no>>
    /\ UNCHANGED <<classifyVars, webhookVars, configVars, pagingVars, ridVars, contactVars>>

NextBackfill ==
    \/ run_initial_backfill
    \/ begin_repository
    \/ details_step
    \/ list_step
    \/ save_github_backfill_state


(***************************************************************************)
(* Properties of the backfill sweep                                        *)
(***************************************************************************)

\* What the cursor state st holds for a resource of a repository: the ETag
\* and, for issues and pull requests, the last-processed-update timestamp.
CursorOf(st, name, res) ==
    IF st[name] = Absent
    THEN <<None, NoTs>>
    ELSE <<st[name].etag[res],
           IF res \in TimedResources THEN st[name].ts[res] ELSE NoTs>>

\* C5: when a page request of a paginated fetch fails (transport error or
\* HTTP error), on page 1 or on a later page, the fetch returns no items and
\* the section hands no event to the processor.
C5_FailedFetchGivesNoItems ==
    (/\ bf_log.done
     /\ bf_log.res \in ListResources
     /\ bf_log.fetch.failed_page > 0)
    => /\ bf_log.fetch.items = <<>>
       /\ bf_log.handed = <<>>

\* C6: after a fetch of a resource in which a request failed (transport error
\* or HTTP error), the ETag held for that resource in the repository's cursor
\* state is the one held before the fetch.
C6_FailedFetchKeepsEtag ==
    (bf_log.done /\ bf_log.fetch.failed_page > 0)
    => bf_log.etag_after = bf_log.etag_before

\* C7: at the end of the sweep, every resource whose fetch failed or whose
\* emission raised has, in the saved state, the ETag and the timestamp it had
\* in the state loaded at the start of the sweep.
C7_IncompleteWorkKeepsCursor ==
    bf_pc = "done"
    => \A pair \in incomplete :
         CursorOf(store, pair[1], pair[2]) = CursorOf(pre_sweep, pair[1], pair[2])

\* C8: a fetch of a list resource sent with a stored ETag and answered 304
\* returns no items and that same ETag; the section hands nothing to the
\* processor and leaves the resource's ETag and the last-processed-update
\* timestamps as they were.
C8_NotModifiedLeavesCursor ==
    (/\ bf_log.done
     /\ bf_log.res \in ListResources
     /\ bf_log.fetch.not_modified)
    => /\ bf_log.fetch.items = <<>>
       /\ bf_log.fetch.etag = bf_log.etag_before
       /\ bf_log.handed = <<>>
       /\ bf_log.etag_after = bf_log.etag_before
       /\ bf_log.ts_after = bf_log.ts_before

\* An issues fetch sent with the stored ETag "e0" was answered 304 while a
\* last-processed-update timestamp was stored.
C8_Witness ==
    /\ bf_log.done
    /\ bf_log.res = "issues"
    /\ bf_log.fetch.not_modified
    /\ bf_log.fetch.requests =
         <<[page |-> 1, if_none_match |-> "e0", since |-> SinceTs(1)]>>
    /\ bf_log.etag_before = "e0"
    /\ bf_log.ts_before["issues"] > NoTs


\* C12: a pass over a repository ends only after its last section: whatever
\* failed in an earlier section, the pull requests section was still run.
C12_FailureKeepsLaterSections ==
    (bf_log.done /\ bf_pc = "repo") => bf_log.res = "prs"

\* The updated_at values of the objects of a fetched list.
UpdatedAts(items) ==
    { items[i].updated_at : i \in { j \in 1..Len(items) : items[j].object } }
MaxOf(S) == CHOOSE x \in S : \A y \in S : y <= x

\* C16: after an issues section that processed at least one item, the stored
\* issues_last_processed_update_ts is the greatest updated_at among the
\* items the fetch returned.
C16_TimestampIsMaxOfFetched ==
    (/\ bf_log.done
     /\ bf_log.res = "issues"
     /\ ~bf_log.raised
     /\ bf_log.handed # <<>>)
    => bf_log.ts_after["issues"] = MaxOf(UpdatedAts(bf_log.fetch.items))

\* C18: every request of the issues fetch carries since = the stored
\* issues_last_processed_update_ts when there is one; without one it carries
\* the start of the lookback window when backfill_lookback_days > 0 and no
\* since otherwise.
C18_IssuesSinceIsStoredElseLookback ==
    (bf_log.done /\ bf_log.res = "issues")
    => \A i \in 1..Len(bf_log.fetch.requests) :
         LET since == bf_log.fetch.requests[i].since IN
         /\ bf_log.ts_before["issues"] # NoTs
              => since = SinceTs(bf_log.ts_before["issues"])
         /\ (bf_log.ts_before["issues"] = NoTs /\ backfill_lookback_days > 0)
              => since = utcnow_minus_days(backfill_lookback_days)
         /\ (bf_log.ts_before["issues"] = NoTs /\ backfill_lookback_days = 0)
              => since = NoSince

\* An issues fetch of two pages was made with a timestamp stored and a
\* lookback window configured.
C18_Witness ==
    /\ bf_log.done
    /\ bf_log.res = "issues"
    /\ backfill_lookback_days > 0
    /\ bf_log.ts_before["issues"] > NoTs
    /\ Len(bf_log.fetch.requests) > 1
    /\ bf_log.fetch.requests[1].since = SinceTs(bf_log.ts_before["issues"])

\* C19: on the first pass over a repository (nothing stored for it), with
\* backfill_lookback_days > 0, every request of the commits fetch carries a
\* since at the start of the lookback window.
C19_FirstCommitsFetchHasSince ==
    (/\ bf_log.done
     /\ bf_log.res = "commits"
     /\ pre_sweep[bf_log.repo] = Absent
     /\ backfill_lookback_days > 0)
    => \A i \in 1..Len(bf_log.fetch.requests) :
         bf_log.fetch.requests[i].since = utcnow_minus_days(backfill_lookback_days)


(***************************************************************************)
(* Sweeps over several repositories; crashes and restarts of the process   *)
(***************************************************************************)

\* ---- bound
MaxSweeps == 2      \* process starts in one behaviour

\* The answers these specifications draw from: one object with an ETag, an
\* unparsable body, a transport error, and 304 to a conditional request.
SweepDetailsAnswers(conditional) ==
    { r \in DetailsUpstreams(conditional) :
        /\ r.kind \in {"ok", "transport_error", "not_modified"}
        /\ r.kind = "ok" => (r.page_data = "repo" /\ r.etag = "e1")
        /\ r.kind = "not_modified" => r.etag = None }
SweepListUpstreams(conditional) ==
    { <<p>> : p \in
        { r \in FirstPages(conditional) :
            /\ r.kind \in {"ok", "transport_error", "bad_json", "not_modified"}
            /\ r.kind = "ok" => /\ Len(r.page_data) = 1
                                /\ r.page_data[1].object
                                /\ r.etag = "e1"
            /\ r.kind = "not_modified" => r.etag = None } }

sweep_details_step == details_step_with(SweepDetailsAnswers(Conditional))
sweep_list_step == list_step_with(SweepListUpstreams(Conditional))

\* The process dies while the sweep is in progress (not while the file is
\* being written): the task and everything in memory are gone.
ProcessGone ==
    /\ bf_pc' = "crashed"
    /\ running' = 0
    /\ overall_backfill_state' = [k \in StoreKeys |-> Absent]
    /\ repo_state' = EmptyCursors
    /\ aliased' = FALSE
    /\ repo_idx' = 0
    /\ pre_sweep' = [k \in StoreKeys |-> Absent]
    /\ incomplete' = {}
    /\ bf_log' = NoLog
    /\ sweep_trace' = <<>>

crash ==
    /\ bf_pc \in {"idle", "repo", "details"} \cup ListResources
    /\ ProcessGone
    /\ UNCHANGED <<store, file_torn, committed, sweep_no>>
    /\ UNCHANGED <<classifyVars, webhookVars, configVars, pagingVars, ridVars, contactVars>>

\* The process dies inside save_github_backfill_state, after open(path, "w")
\* has truncated the file and before json.dump has written it out.
crash_in_save ==
    /\ bf_pc = "repo"
    /\ repo_idx > Len(monitored_repositories)
    /\ file_torn' = TRUE
    /\ store' = [k \in StoreKeys |-> Absent]
    /\ ProcessGone
    /\ UNCHANGED <<committed, sweep_no>>
    /\ UNCHANGED <<classifyVars, webhookVars, configVars, pagingVars, ridVars, contactVars>>

\* A start of lifespan that does not wait for the process to be gone.
lifespan_WhileRunning ==
    /\ sweep_no < MaxSweeps
    /\ sweep_no' = sweep_no + 1
    /\ running' = running + 1
    /\ overall_backfill_state' = [k \in StoreKeys |-> Absent]
    /\ repo_state' = EmptyCursors
    /\ aliased' = FALSE
    /\ bf_pc' = "idle"
    /\ repo_idx' = 0
    /\ pre_sweep' = [k \in StoreKeys |-> Absent]
    /\ incomplete' = {}
    /\ bf_log' = NoLog
    /\ sweep_trace' = <<>>
    /\ UNCHANGED <<store, file_torn, committed>>
    /\ UNCHANGED <<classifyVars, webhookVars, configVars, pagingVars, ridVars, contactVars>>

\* server.py lifespan, startup half, in a new process after the old one has
\* stopped or crashed: the one place that creates a run_initial_backfill task.
lifespan ==
    /\ bf_pc \in {"done", "crashed"}
    /\ sweep_no < MaxSweeps
    /\ sweep_no' = sweep_no + 1
    /\ running' = 1
    /\ overall_backfill_state' = [k \in StoreKeys |-> Absent]
    /\ repo_state' = EmptyCursors
    /\ aliased' = FALSE
    /\ bf_pc' = "idle"
    /\ repo_idx' = 0
    /\ pre_sweep' = [k \in StoreKeys |-> Absent]
    /\ incomplete' = {}
    /\ bf_log' = NoLog
    /\ sweep_trace' = <<>>
    /\ UNCHANGED <<store, file_torn, committed>>
    /\ UNCHANGED <<classifyVars, webhookVars, configVars, pagingVars, ridVars, contactVars>>

NextSweep ==
    \/ run_initial_backfill
    \/ begin_repository
    \/ sweep_details_step
    \/ sweep_list_step
    \/ save_github_backfill_state

NextRestart ==
    \/ NextSweep
    \/ crash
    \/ crash_in_save
    \/ lifespan

\* How often x occurs in a trace.
CountOf(trace, x) == Cardinality({ i \in 1..Len(trace) : trace[i] = x })

\* The configured names of the form owner/repo.
ValidNames ==
    { i \in 1..Len(monitored_repositories) : Len(monitored_repositories[i]) = 2 }

\* C11: when the sweep has ended, backfill was started for every configured
\* repository, also for those after one whose backfill raised, and the last
\* thing the sweep did was save the overall state to the store.
C11_EveryRepositoryAttemptedAndSaved ==
    bf_pc = "done"
    => /\ CountOf(sweep_trace, "repo") = Cardinality(ValidNames)
       /\ sweep_trace[Len(sweep_trace)] = "save"
       /\ ~file_torn
       /\ store = overall_backfill_state

\* The sweep over SweepRepos has ended; the backfill of o/r1 was left by an
\* exception in its commits section, and all four sections of o/r2 were run.
C11_Witness ==
    /\ bf_pc = "done"
    /\ monitored_repositories = SweepRepos
    /\ sweep_trace = <<"load", "repo", "details", "commits", "skip", "repo",
                       "details", "commits", "issues", "prs", "save">>

\* C13: at every moment, a load of the store returns the cursors that the
\* last completed save wrote.
C13_LoadReturnsLastCompletedSave ==
    load_github_backfill_state = committed

\* C14: the sweep's first step is its only load, so every upstream request
\* comes after it; a save is the sweep's last step and happens once every
\* configured name has been gone through; a sweep that has ended has saved.
C14_LoadOnceSaveOnceAtEnd ==
    /\ sweep_trace # <<>> => sweep_trace[1] = "load"
    /\ CountOf(sweep_trace, "load") <= 1
    /\ CountOf(sweep_trace, "save") <= 1
    /\ \A i \in 1..Len(sweep_trace) :
         sweep_trace[i] = "save"
         => /\ i = Len(sweep_trace)
            /\ CountOf(sweep_trace, "repo") + CountOf(sweep_trace, "skip")
                 = Len(monitored_repositories)
    /\ (bf_pc = "done" /\ monitored_repositories # <<>>)
         => CountOf(sweep_trace, "save") = 1

\* A sweep over two repositories and a skipped name has ended, with upstream
\* requests made for both repositories.
C14_Witness ==
    /\ bf_pc = "done"
    /\ CountOf(sweep_trace, "repo") = 2
    /\ CountOf(sweep_trace, "skip") = 1
    /\ CountOf(sweep_trace, "details") = 2
    /\ CountOf(sweep_trace, "prs") = 2

\* C15: never more than one run_initial_backfill task exists in the process.
C15_SingleFlight == running <= 1

\* The sweep of a restarted process is making its requests.
C15_Witness ==
    /\ sweep_no > 1
    /\ bf_pc \in ListResources
    /\ running = 1

\* The last-processed-update timestamp a cursor state holds for a repository.
TsOf(st, name, res) == IF st[name] = Absent THEN NoTs ELSE st[name].ts[res]

\* C17: what a load of the store returns as a repository's issues or pull
\* requests timestamp never gets smaller and never goes from set to unset,
\* and a section whose fetch succeeded with zero items leaves the timestamps
\* as they were.
C17_TimestampsNeverRegress ==
    /\ [][\A name \in StoreKeys : \A res \in TimedResources :
            TsOf(load_github_backfill_state', name, res)
              >= TsOf(load_github_backfill_state, name, res)]_vars
    /\ []((/\ bf_log.done
           /\ bf_log.res \in TimedResources
           /\ ~bf_log.raised
           /\ bf_log.fetch.failed_page = 0
           /\ bf_log.fetch.items = <<>>)
          => bf_log.ts_after = bf_log.ts_before)

\* C22: no event handed to the processor by a backfill section carries a
\* NEW or UPDATE hint.
C22_BackfillEventsCarryNoHint ==
    bf_log.done
    => \A i \in 1..Len(bf_log.handed) : bf_log.handed[i].event_type = None

\* The identity the webhook path gives the entity with natural key `key` of
\* repository full_name when the payload carries no delivery id: an issue or
\* pull request with that node id, a push whose after is that SHA.
WebhookIdentity(res, full_name, key) ==
    LET entity == [valid |-> TRUE, delivery_id |-> None,
                   full_name |-> full_name, node_id |-> key,
                   action |-> "opened"]
        push == [valid |-> TRUE, delivery_id |-> None, full_name |-> full_name,
                 ref |-> <<"refs", "heads", "main">>, before |-> "sha0",
                 after |-> key, deleted |-> FALSE, forced |-> FALSE]
    IN  CASE res = "issues" -> handle_issues_event(entity).events[1].rid
          [] res = "prs" -> handle_pull_request_event(entity).events[1].rid
          [] OTHER -> handle_push_event(push).events[1].rid

\* C23: every commit, issue or pull request a backfill section hands to the
\* processor goes under the identity the webhook path gives the same entity.
C23_SameIdentityOnBothChannels ==
    (bf_log.done /\ bf_log.res \in ListResources)
    => \A i \in 1..Len(bf_log.handed) :
         bf_log.handed[i].rid
           = WebhookIdentity(
               bf_log.res,
               monitored_repositories[
                  CHOOSE n \in ValidNames : RepoName(n) = bf_log.repo],
               bf_log.fetch.items[i].key)

\* C34: when a section stores a new ETag for commits, issues or pull
\* requests, every fetched item that carries its natural key has been handed
\* to the processor in that section.
C34_StoredEtagMeansAllEmitted ==
    ( /\ bf_log.done
      /\ bf_log.res \in ListResources
      /\ bf_log.etag_after # bf_log.etag_before )
    => \A i \in 1..Len(bf_log.fetch.items) :
         bf_log.fetch.items[i].object =>
           \E j \in 1..Len(bf_log.handed) :
              bf_log.handed[j].rid.event_id
                = EventIdPrefix(bf_log.res) \o bf_log.fetch.items[i].key

(***************************************************************************)
(* The order of a sweep's upstream requests (checked under SpecOrder).     *)
(***************************************************************************)

\* The answers this specification draws from: lists of one or more pages of
\* commits, issues or pull requests, a list whose only element is not an
\* object, and an unparsable body.
OrderDetailsAnswers(conditional) ==
    { r \in SweepDetailsAnswers(conditional) : r.kind \in {"ok", "transport_error"} }
OrderListUpstreams(conditional) ==
    { u \in ListUpstreams(conditional) :
        \A i \in 1..Len(u) :
          /\ u[i].kind \in {"ok", "bad_json"}
          /\ u[i].kind = "ok" =>
               /\ u[i].etag = (IF i = 1 THEN "e1" ELSE None)
               /\ u[i].page_data # <<>>
               /\ \/ u[i].page_data = <<NotAnObject>>
                  \/ \A k \in 1..Len(u[i].page_data) : u[i].page_data[k] = ItemA }

order_details_step == details_step_with(OrderDetailsAnswers(Conditional))
order_list_step == list_step_with(OrderListUpstreams(Conditional))

NextOrder ==
    \/ run_initial_backfill
    \/ begin_repository
    \/ order_details_step
    \/ order_list_step
    \/ save_github_backfill_state

\* The positions of the trace at which a repository was taken up.
RepoEntries(trace) == { i \in 1..Len(trace) : trace[i] \in {"repo", "skip"} }

Sections == {"details"} \cup ListResources

\* What precedes a section in the trace.
SectionBefore(res) ==
    CASE res = "details" -> "repo"
      [] res = "commits" -> "details"
      [] res = "issues" -> "commits"
      [] OTHER -> "issues"

\* C36: a sweep takes the repositories one after another in configuration
\* order and, within a repository, the resources in the order details,
\* commits, issues, pull requests; the pages of a fetch are requested one
\* after another; there is never more than one backfill task, hence never
\* more than one upstream request in flight.
C36_SequentialInOrder ==
    /\ running <= 1
    /\ \A i \in 1..Len(sweep_trace) :
         sweep_trace[i] \in Sections =>
           (i > 1 /\ sweep_trace[i - 1] = SectionBefore(sweep_trace[i]))
    /\ bf_pc \in Sections =>
         /\ Cardinality(RepoEntries(sweep_trace)) = repo_idx
         /\ sweep_trace[Len(sweep_trace)] = SectionBefore(bf_pc)
    /\ bf_pc = "repo" => Cardinality(RepoEntries(sweep_trace)) = repo_idx - 1
    /\ \A k \in 1..Cardinality(RepoEntries(sweep_trace)) :
         \E i \in RepoEntries(sweep_trace) :
            /\ Cardinality({j \in RepoEntries(sweep_trace) : j <= i}) = k
            /\ sweep_trace[i] = (IF k \in ValidNames THEN "repo" ELSE "skip")
    /\ bf_log.done =>
         /\ bf_log.repo = RepoName(Cardinality(RepoEntries(sweep_trace)))
         /\ bf_pc # "done" => bf_log.res = sweep_trace[Len(sweep_trace)]
         /\ \A i \in 1..Len(bf_log.fetch.requests) :
              bf_log.fetch.requests[i].page = i

\* The sweep over SweepRepos is in the pull requests of o/r2, after all four
\* sections of o/r1 and the skipped name; the issues fetch took two pages.
C36_Witness ==
    /\ bf_pc = "prs"
    /\ monitored_repositories = SweepRepos
    /\ sweep_trace = <<"load", "repo", "details", "commits", "issues", "prs",
                       "skip", "repo", "details", "commits", "issues">>
    /\ bf_log.repo = "o/r2"
    /\ Len(bf_log.fetch.requests) = 2

\* The store keys the sweep has no business with: repositories that are not
\* monitored, and configured names that are not of the form owner/repo.
ForeignKeys == { k \in StoreKeys : \A i \in ValidNames : RepoName(i) # k }

\* C38: a sweep leaves unchanged, in the store it saves, the entries of every
\* repository that is not monitored and of every configured name that is not
\* of the form owner/repo; such a name is skipped without an upstream request
\* and the sweep goes on.
C38_ForeignEntriesUntouched ==
    /\ bf_pc \notin {"idle", "done"} =>
         \A k \in ForeignKeys : overall_backfill_state[k] = pre_sweep[k]
    /\ bf_log.done => bf_log.repo \notin ForeignKeys
    /\ bf_pc = "done" =>
         /\ \A k \in ForeignKeys : store[k] = pre_sweep[k]
         /\ CountOf(sweep_trace, "skip")
              = Len(monitored_repositories) - Cardinality(ValidNames)
         /\ CountOf(sweep_trace, "repo") = Cardinality(ValidNames)
         /\ \A i \in 1..Len(sweep_trace) :
              sweep_trace[i] = "skip" =>
                (i < Len(sweep_trace) /\ sweep_trace[i + 1] \notin Sections)

\* The sweep over o/r1, "bad", o/r2 has saved: the entries of o/other and of
\* "bad" are the stored ones, the entry of o/r1 has a new ETag, and o/r2 was
\* taken up after the skipped name.
C38_Witness ==
    /\ bf_pc = "done"
    /\ monitored_repositories = SweepRepos
    /\ store["o/other"] = StoredCursors
    /\ store["bad"] = StoredCursors
    /\ store["o/r1"] # StoredCursors
    /\ store["o/r1"] # Absent
    /\ sweep_trace[Len(sweep_trace) - 2] = "details"

(***************************************************************************)
(*           PART 4: PAGINATION AGAINST A LIST SERVED IN PAGES             *)
(***************************************************************************)

\* ---- bounds of part 4
MaxPagingLen == 12      \* items of the upstream list at most

PagingPerPages == {1, 2, 3}
NoResult == [called |-> FALSE]
PagingItems == {ItemA, ItemB}

\* The API serving a list in pages of per_page items: page k holds the items
\* (k-1)*per_page+1 .. k*per_page that exist; every page carries the ETag of
\* its own URL, and the list has changed since the ETag "e0" was stored.
ServedPage(list, per_page, k) ==
    [kind |-> "ok",
     page_data |-> SubSeq(list, (k - 1) * per_page + 1,
                          Min(k * per_page, Len(list))),
     etag |-> IF k = 1 THEN "e1" ELSE "e9"]
ServePages(list, per_page) ==
    [k \in 1..((Len(list) + per_page - 1) \div per_page) |->
        ServedPage(list, per_page, k)]

InitPaging ==
    /\ paging_list \in SeqsUpTo(PagingItems, MaxPagingLen)
    /\ paging_per_page \in PagingPerPages
    /\ paging_etag \in {None, "e0"}
    /\ paging_result = NoResult

\* One call get_repo_list_paged(path, {"per_page": per_page}, etag) on the list.
call_get_repo_list_paged ==
    /\ paging_result = NoResult
    /\ paging_result' =
         [called |-> TRUE,
          fetch |-> get_repo_list_paged(
                        ServePages(paging_list, paging_per_page),
                        [per_page |-> paging_per_page, since |-> NoSince],
                        paging_etag)]
    /\ UNCHANGED <<paging_list, paging_per_page, paging_etag>>
    /\ UNCHANGED <<classifyVars, webhookVars, backfillVars, configVars, ridVars, contactVars>>

NextPaging == call_get_repo_list_paged

\* C20: for a list of n items served in pages of p, with n < max_pages * p,
\* the fetch makes n \div p + 1 page requests and returns the n items in the
\* order of the list.
C20_PagesAndItems ==
    (/\ paging_result.called
     /\ Len(paging_list) < max_pages * paging_per_page)
    => /\ Len(paging_result.fetch.requests)
            = (Len(paging_list) \div paging_per_page) + 1
       /\ paging_result.fetch.items = paging_list

\* C37: in a paginated fetch If-None-Match goes on the page-1 request only,
\* and only when an ETag was supplied; no later request carries it, and the
\* ETag returned is the one of page 1 (or the one supplied), never that of a
\* later page.
C37_ConditionalOnFirstPageOnly ==
    paging_result.called
    => LET f == paging_result.fetch
           pages == ServePages(paging_list, paging_per_page)
       IN  /\ \A i \in 1..Len(f.requests) :
                /\ f.requests[i].page = i
                /\ f.requests[i].if_none_match
                     = (IF i = 1 /\ Truthy(paging_etag) THEN paging_etag ELSE None)
           /\ f.etag = (IF Len(pages) >= 1 THEN pages[1].etag ELSE paging_etag)
           /\ \A k \in 2..Len(pages) : f.etag # pages[k].etag

\* A conditional fetch that took three pages, each with its own ETag.
C37_Witness ==
    /\ paging_result.called
    /\ paging_etag = "e0"
    /\ Len(paging_result.fetch.requests) = 3
    /\ paging_result.fetch.requests[1].if_none_match = "e0"
    /\ paging_result.fetch.requests[3].if_none_match = None
    /\ Len(ServePages(paging_list, paging_per_page)) = 3
    /\ ServePages(paging_list, paging_per_page)[3].etag = "e9"
    /\ paging_result.fetch.etag = "e1"


\* C21: a call of get_repo_list_paged returns after at most max_pages page
\* requests, also when the upstream has a full page for every request.
C21_AtMostMaxPagesRequests ==
    paging_result.called
    => /\ Len(paging_result.fetch.requests) <= max_pages
       /\ Len(paging_result.fetch.items) <= max_pages * paging_per_page

\* The upstream had more than max_pages full pages; the call made max_pages
\* requests and returned their items.
C21_Witness ==
    /\ paging_result.called
    /\ Len(paging_list) > max_pages * paging_per_page
    /\ Len(paging_result.fetch.requests) = max_pages
    /\ paging_result.fetch.items
         = SubSeq(paging_list, 1, max_pages * paging_per_page)

\* Five items in pages of two (the 125 items in pages of 50 of the scenario,
\* scaled): three requests; and a list that fills its pages exactly.
C20_Witness ==
    /\ paging_result.called
    /\ Len(paging_list) = 5
    /\ paging_per_page = 2
    /\ Len(paging_result.fetch.requests) = 3
    /\ paging_result.fetch.items = paging_list
    /\ paging_list[1] # paging_list[2]

(***************************************************************************)
(*                  PART 5: THE GitHubEvent RID TYPE                       *)
(***************************************************************************)

\* ---- bounds of part 5
MaxRefLen == 6      \* longest string handed to from_reference

\* The characters that matter to the type: a name character and the two
\* separators.
RidChars == {"a", "/", ":"}

RECURSIVE StringsUpTo(_)
StringsUpTo(n) ==
    IF n = 0 THEN {""}
    ELSE StringsUpTo(n - 1)
           \cup {s \o c : s \in StringsUpTo(n - 1), c \in RidChars}

CharAt(str, i) == SubSeq(str, i, i)
\* str.count(ch)
CountOfChar(str, ch) == Cardinality({i \in 1..Len(str) : CharAt(str, i) = ch})
\* str.find(ch), counted from 1; 0 when ch is not in str
FindChar(str, ch) ==
    IF CountOfChar(str, ch) = 0 THEN 0
    ELSE CHOOSE i \in 1..Len(str) :
           /\ CharAt(str, i) = ch
           /\ \A j \in 1..(i - 1) : CharAt(str, j) # ch

split_once_KeepSep(str, sep) ==
    LET i == FindChar(str, sep)
    IN  IF i = 0 THEN <<str>>
        ELSE <<SubSeq(str, 1, i - 1), SubSeq(str, i, Len(str))>>

\* str.split(sep, 1)
split_once(str, sep) ==
    LET i == FindChar(str, sep)
    IN  IF i = 0 THEN <<str>>
        ELSE <<SubSeq(str, 1, i - 1), SubSeq(str, i + 1, Len(str))>>

\* len(str.split(sep))
len_split(str, sep) == CountOfChar(str, sep) + 1

ValueError == [raised |-> TRUE]

\* rid_types.py GitHubEvent.__init__ (the repository name as the string it is)
GitHubEvent_init(repo_full_name, event_id) ==
    IF CountOfChar(repo_full_name, "/") = 0 \/ len_split(repo_full_name, "/") # 2
    THEN ValueError
    ELSE [raised |-> FALSE, repo_full_name |-> repo_full_name,
          event_id |-> event_id]

\* GitHubEvent.reference
reference(e) == e.repo_full_name \o ":" \o e.event_id

\* GitHubEvent.from_reference
from_reference(ref) ==
    LET parts == split_once(ref, ":")
    IN  IF Len(parts) # 2 THEN ValueError
        ELSE LET repo_full_name == parts[1]
                 event_id == parts[2]
             IN  IF CountOfChar(repo_full_name, "/") = 0
                      \/ len_split(repo_full_name, "/") # 2
                 THEN ValueError
                 ELSE IF event_id = "" THEN ValueError
                 ELSE GitHubEvent_init(repo_full_name, event_id)

NoCall == [op |-> "none"]

InitRid == rid_call = NoCall

\* from_reference on any string.
call_from_reference ==
    /\ rid_call = NoCall
    /\ \E ref \in StringsUpTo(MaxRefLen) :
         rid_call' = [op |-> "from_reference", ref |-> ref,
                      result |-> from_reference(ref)]
    /\ UNCHANGED <<classifyVars, webhookVars, backfillVars, configVars, pagingVars, contactVars>>

\* An identity is constructed, serialised and parsed back.
call_round_trip ==
    /\ rid_call = NoCall
    /\ \E repo_full_name \in StringsUpTo(MaxRefLen - 3), event_id \in StringsUpTo(2) :
         LET e == GitHubEvent_init(repo_full_name, event_id)
         IN  /\ ~e.raised
             /\ rid_call' = [op |-> "round_trip", e |-> e,
                             ref |-> reference(e),
                             result |-> from_reference(reference(e))]
    /\ UNCHANGED <<classifyVars, webhookVars, backfillVars, configVars, pagingVars, contactVars>>

NextRid == call_from_reference \/ call_round_trip

(***************************************************************************)
(* Claims about the RID type (checked under SpecRid).                      *)
(***************************************************************************)

\* A name of the form owner/name: one '/', owner and name made of name
\* characters.
OwnerSlashName(repo_full_name) ==
    /\ CountOfChar(repo_full_name, "/") = 1
    /\ CountOfChar(repo_full_name, ":") = 0

ValidIdentity(e) ==
    /\ OwnerSlashName(e.repo_full_name)
    /\ e.event_id # ""
    /\ CountOfChar(e.event_id, ":") = 0

C32_MalformedReferenceIsRejected ==
    ( /\ rid_call.op = "from_reference"
      /\ \/ CountOfChar(rid_call.ref, ":") # 1
         \/ CountOfChar(split_once(rid_call.ref, ":")[1], "/") # 1 )
    => rid_call.result.raised

(***************************************************************************)
(*        PART 6: THE NODE: WEBHOOKS ARRIVING WHILE A SWEEP RUNS           *)
(***************************************************************************)

\* ---- bound
MaxNodeRequests == 1    \* webhook requests received while the sweep runs

\* The listener, for the requests of this specification.
node_webhook_listener ==
    /\ nRequests < MaxNodeRequests
    /\ github_webhook_listener

\* The event loop runs the backfill task and the webhook tasks in any order:
\* each resource section, each listener call and each webhook task is one
\* step.
NextNode ==
    \/ NextSweep
    \/ node_webhook_listener
    \/ RunWebhookTask

\* The cursor state: the durable store, the sweep's copy and the repository's
\* state in hand.
cursorVars ==
    <<store, overall_backfill_state, repo_state, aliased, file_torn, committed>>

\* C33: no step of the webhook path (listener, task, handlers) writes the
\* cursor state or the cursor store, and what a webhook task hands over is
\* decided by the task alone, whatever the sweep is doing.
C33_WebhookLeavesCursors ==
    [][ webhookVars' # webhookVars =>
          /\ cursorVars' = cursorVars
          /\ backfillVars' = backfillVars
          /\ lastTask' # lastTask =>
               /\ lastTask'.result
                    = process_webhook_event(Head(tasks).event_type,
                                            Head(tasks).payload_dict,
                                            Head(tasks).delivery_id)
               /\ emitted' = HandOver(Head(tasks), lastTask'.result) ]_vars

\* A webhook was processed and the sweep, half-way through the repository,
\* holds a cursor it has advanced.
C33_Witness ==
    /\ lastTask.ran
    /\ Len(emitted) = 1
    /\ bf_pc = "issues"
    /\ repo_state.etag["commits"] = "e1"
    /\ store["o/r1"] = Absent

\* An identity as the reference form needs it.
WellFormedIdentity(rid) ==
    /\ CountOfChar(rid.repo_full_name, "/") = 1
    /\ rid.event_id # ""
    /\ CountOfChar(rid.event_id, ":") = 0

MaxContacts == 2

\* The RID types a profile can provide and an edge can carry.
RidTypes == {"KoiNetNode", "KoiNetEdge", "GitHubEvent"}

\* The nodes discovered, and the sensor's own identity.
DiscoveredNodes == {"N1", "N2"}

SensorRid == "SENSOR"

\* bundle.contents is {}; contents that are no NodeProfile (a kobj without a
\* bundle has NoBundle).
EmptyContents == [empty |-> TRUE]

InvalidContents == [invalid |-> TRUE]

NodeProfile(provided) == [provides |-> [event |-> provided]]

\* get_edge_profile found no edge.
NoEdgeProfile == [none |-> TRUE]

EdgeProfile(rid_types, status) == [rid_types |-> rid_types, status |-> status]

KnowledgeObject(rid, normalized_event_type, bundle) ==
    [rid |-> rid, normalized_event_type |-> normalized_event_type, bundle |-> bundle]

sensor_subscribes_to_types == {"KoiNetNode", "KoiNetEdge"}

\* The first early return: only NEW events go on.
is_new(kobj) == kobj.normalized_event_type = "NEW"

\* The second early return: a bundle with contents is needed.
has_contents(kobj) ==
    /\ kobj.bundle # NoBundle
    /\ kobj.bundle.contents # EmptyContents

\* bundle.validate_contents(NodeProfile): raises on contents of another shape.
validate_contents(bundle) ==
    IF bundle.contents = InvalidContents
    THEN [raised |-> TRUE]
    ELSE [raised |-> FALSE, profile |-> bundle.contents]

is_coordinator(discovered_node_profile) ==
    /\ "KoiNetNode" \in discovered_node_profile.provides.event
    /\ "KoiNetEdge" \in discovered_node_profile.provides.event

\* The handler goes past its four early returns.
goes_on(kobj) ==
    /\ is_new(kobj)
    /\ has_contents(kobj)
    /\ ~validate_contents(kobj.bundle).raised
    /\ is_coordinator(validate_contents(kobj.bundle).profile)

\* graph.get_edge_profile(source = the sensor, target = the node).
get_edge_profile(target) == graph[target]

propose_sensor_to_coord_edge_AnyStatus(existing_edge_sensor_to_coord) ==
    IF existing_edge_sensor_to_coord # NoEdgeProfile
    THEN ~(sensor_subscribes_to_types \subseteq existing_edge_sensor_to_coord.rid_types)
    ELSE TRUE

propose_sensor_to_coord_edge(existing_edge_sensor_to_coord) ==
    IF existing_edge_sensor_to_coord # NoEdgeProfile
    THEN IF /\ sensor_subscribes_to_types \subseteq existing_edge_sensor_to_coord.rid_types
            /\ existing_edge_sensor_to_coord.status = "APPROVED"
         THEN FALSE
         ELSE TRUE
    ELSE TRUE

\* generate_edge_bundle(source, target, edge_type = WEBHOOK, rid_types).
generate_edge_bundle(source, target, rid_types) ==
    [kind |-> "edge", source |-> source, target |-> target,
     edge_type |-> "WEBHOOK", rid_types |-> rid_types]

\* What fetch_rids and cache.exists answer: the request fails, or it returns
\* rids of which the cache holds some.
FetchOutcomes ==
    {[raised |-> TRUE, rids |-> <<>>, cached |-> {}],
     [raised |-> FALSE, rids |-> <<>>, cached |-> {}],
     [raised |-> FALSE, rids |-> <<SensorRid, "N3">>, cached |-> {}],
     [raised |-> FALSE, rids |-> <<SensorRid, "N3">>, cached |-> {"N3"}]}

newly_discovered_rids(fetch) ==
    SelectSeq(fetch.rids, LAMBDA rid : rid # SensorRid /\ rid \notin fetch.cached)

\* The edge proposal of a call, if it makes one.
EdgeSubmission(call, kobj) ==
    IF propose_sensor_to_coord_edge(get_edge_profile(kobj.rid))
    THEN <<[call |-> call, source |-> "Internal",
            bundle |-> generate_edge_bundle(SensorRid, kobj.rid,
                                            sensor_subscribes_to_types)]>>
    ELSE <<>>

\* The bundles fetched from the coordinator, each given to processor.handle.
FetchedSubmissions(call, fetch) ==
    IF fetch.raised
    THEN <<>>
    ELSE [i \in 1..Len(newly_discovered_rids(fetch)) |->
            [call |-> call, source |-> "External",
             bundle |-> [kind |-> "node", rid |-> newly_discovered_rids(fetch)[i]]]]

\* The knowledge objects that go past the early returns: a NEW event of either
\* node whose profile provides both network types.
CoordinatorObjects ==
    { KnowledgeObject(n, "NEW", [contents |-> NodeProfile(p)]) :
        n \in DiscoveredNodes, p \in {sensor_subscribes_to_types, RidTypes} }

\* The knowledge objects that return early, each for one reason.
OtherObjects ==
    { KnowledgeObject("N1", t, [contents |-> NodeProfile(sensor_subscribes_to_types)]) :
        t \in {"UPDATE", "FORGET"} }
    \cup { KnowledgeObject("N1", "NEW", b) :
             b \in {NoBundle, [contents |-> EmptyContents], [contents |-> InvalidContents]} }
    \cup { KnowledgeObject("N1", "NEW", [contents |-> NodeProfile(p)]) :
             p \in {{}, {"KoiNetNode"}, {"KoiNetEdge", "GitHubEvent"}} }

\* The edges the sensor can have to a node when the handler looks.
EdgeProfiles ==
    {NoEdgeProfile,
     EdgeProfile(sensor_subscribes_to_types, "APPROVED"),
     EdgeProfile(sensor_subscribes_to_types, "PROPOSED"),
     EdgeProfile({"KoiNetNode"}, "APPROVED"),
     EdgeProfile(RidTypes, "APPROVED")}

Graphs ==
    { [n \in DiscoveredNodes |-> IF n = "N1" THEN e1 ELSE e2] :
        e1 \in EdgeProfiles,
        e2 \in {NoEdgeProfile, EdgeProfile(sensor_subscribes_to_types, "APPROVED")} }

ContactIdle ==
    /\ graph = [n \in DiscoveredNodes |-> NoEdgeProfile]
    /\ contact_log = <<>>
    /\ processor_handled = <<>>
    /\ pushed = <<>>

InitContact ==
    /\ graph \in Graphs
    /\ contact_log = <<>>
    /\ processor_handled = <<>>
    /\ pushed = <<>>

\* One call of the handler that returns early.
coordinator_contact_returns ==
    /\ Len(contact_log) < MaxContacts
    /\ \E kobj \in OtherObjects \cup CoordinatorObjects :
         /\ ~goes_on(kobj)
         /\ contact_log' = Append(contact_log, kobj)
    /\ UNCHANGED <<graph, processor_handled, pushed>>
    /\ UNCHANGED <<classifyVars, webhookVars, backfillVars, configVars, pagingVars, ridVars>>

\* One call of the handler on a coordinator: the edge proposal if one is
\* needed, the push of the sensor's own bundle, the fetch of the network state.
coordinator_contact_acts ==
    /\ Len(contact_log) < MaxContacts
    /\ \E kobj \in OtherObjects \cup CoordinatorObjects, fetch \in FetchOutcomes :
         LET call == Len(contact_log) + 1
         IN  /\ goes_on(kobj)
             /\ contact_log' = Append(contact_log, kobj)
             /\ processor_handled' = processor_handled \o EdgeSubmission(call, kobj)
                                       \o FetchedSubmissions(call, fetch)
             /\ pushed' = Append(pushed, [call |-> call, node |-> kobj.rid])
    /\ UNCHANGED graph
    /\ UNCHANGED <<classifyVars, webhookVars, backfillVars, configVars, pagingVars, ridVars>>

NextContact == coordinator_contact_returns \/ coordinator_contact_acts

\* The edge proposals call number c submitted.
ProposalsOf(c) ==
    { i \in 1..Len(processor_handled) :
        processor_handled[i].call = c /\ processor_handled[i].source = "Internal" }

\* Anything call number c did: a bundle handled or an event pushed.
ActedIn(c) ==
    \/ \E i \in 1..Len(processor_handled) : processor_handled[i].call = c
    \/ \E i \in 1..Len(pushed) : pushed[i].call = c

\* The object is a NEW event whose contents validate as a profile that
\* provides both KoiNetNode and KoiNetEdge events.
NewCoordinator(kobj) ==
    /\ kobj.normalized_event_type = "NEW"
    /\ kobj.bundle # NoBundle
    /\ kobj.bundle.contents \notin {EmptyContents, InvalidContents}
    /\ {"KoiNetNode", "KoiNetEdge"} \subseteq kobj.bundle.contents.provides.event

\* The sensor has an APPROVED edge to the node that carries both types.
CoveredBy(edge) ==
    /\ edge # NoEdgeProfile
    /\ edge.status = "APPROVED"
    /\ {"KoiNetNode", "KoiNetEdge"} \subseteq edge.rid_types

\* C39: coordinator_contact_handler does something only when it is called
\* with a NEW KoiNetNode event whose validated profile provides both
\* KoiNetNode and KoiNetEdge events; for such a node it submits one edge
\* proposal from the sensor to that node for the two network types, unless the
\* sensor's existing edge to that node is APPROVED and already carries both
\* types, and then it submits no edge proposal.
C39_ContactOnlyCoordinators ==
    \A c \in 1..Len(contact_log) :
        LET kobj == contact_log[c]
        IN  /\ ActedIn(c) => NewCoordinator(kobj)
            /\ NewCoordinator(kobj) =>
                 IF CoveredBy(graph[kobj.rid])
                 THEN ProposalsOf(c) = {}
                 ELSE /\ Cardinality(ProposalsOf(c)) = 1
                      /\ \A i \in ProposalsOf(c) :
                           /\ processor_handled[i].bundle.source = SensorRid
                           /\ processor_handled[i].bundle.target = kobj.rid
                           /\ processor_handled[i].bundle.rid_types = {"KoiNetNode", "KoiNetEdge"}
            /\ ~NewCoordinator(kobj) => ProposalsOf(c) = {}

\* Two calls: a coordinator to which an edge is only PROPOSED gets a proposal,
\* a coordinator to which an APPROVED edge for both types exists gets none
\* and is still pushed the sensor's bundle.
C39_Witness ==
    /\ Len(contact_log) = 2
    /\ contact_log[1].rid = "N1"
    /\ contact_log[2].rid = "N2"
    /\ graph["N1"] = EdgeProfile(sensor_subscribes_to_types, "PROPOSED")
    /\ graph["N2"] = EdgeProfile(sensor_subscribes_to_types, "APPROVED")
    /\ ProposalsOf(1) # {}
    /\ ProposalsOf(2) = {}
    /\ Len(pushed) = 2

(***************************************************************************)
(*                          THE SPECIFICATIONS                             *)
(***************************************************************************)

\* The part 4 variables outside SpecPaging.
PagingIdle ==
    /\ paging_list = <<>>
    /\ paging_per_page = 1
    /\ paging_etag = None
    /\ paging_result = NoResult

Init ==
    /\ InitClassify
    /\ InitWebhook
    /\ InitBackfill
    /\ monitored_repositories = OneRepo
    /\ backfill_lookback_days = 30
    /\ PagingIdle
    /\ InitRid
    /\ ContactIdle

SpecClassify == Init /\ [][NextClassify]_vars

SpecWebhook == Init /\ [][NextWebhook]_vars

\* One sweep over one repository, with either lookback setting.
InitOneRepo ==
    /\ InitClassify
    /\ InitWebhook
    /\ InitBackfill
    /\ monitored_repositories = OneRepo
    /\ backfill_lookback_days \in LookbackDays
    /\ PagingIdle
    /\ InitRid
    /\ ContactIdle

SpecBackfill == InitOneRepo /\ [][NextBackfill]_vars

\* One call of get_repo_list_paged on each list and page size.
InitPagingOnly ==
    /\ InitClassify
    /\ InitWebhook
    /\ InitBackfill
    /\ store = [k \in StoreKeys |-> Absent]
    /\ monitored_repositories = OneRepo
    /\ backfill_lookback_days = 30
    /\ InitPaging
    /\ InitRid
    /\ ContactIdle

SpecPaging == InitPagingOnly /\ [][NextPaging]_vars

\* One sweep over SweepRepos.
InitSweep ==
    /\ InitClassify
    /\ InitWebhook
    /\ InitBackfill
    /\ monitored_repositories = SweepRepos
    /\ backfill_lookback_days = 30
    /\ PagingIdle
    /\ InitRid
    /\ ContactIdle

SpecSweep == InitSweep /\ [][NextSweep]_vars

\* One sweep over SweepRepos whose fetches may take several pages.
SpecOrder == InitSweep /\ [][NextOrder]_vars

\* Sweeps over one repository by a process that can crash and be restarted.
SpecRestart == Init /\ [][NextRestart]_vars

\* One sweep over one repository, from an empty cursor store, with webhooks
\* arriving at any point of it.
InitNode == Init /\ store = [k \in StoreKeys |-> Absent]

SpecNode == InitNode /\ [][NextNode]_vars

\* Calls on the GitHubEvent type, on every string up to MaxRefLen characters.
SpecRid == Init /\ [][NextRid]_vars

\* Calls of coordinator_contact_handler, on every graph of Graphs.
InitContactOnly ==
    /\ InitClassify
    /\ InitWebhook
    /\ InitBackfill
    /\ monitored_repositories = OneRepo
    /\ backfill_lookback_days = 30
    /\ PagingIdle
    /\ InitRid
    /\ InitContact

SpecContact == InitContactOnly /\ [][NextContact]_vars

==========================================================================
